---- MODULE Spec2Model ----
(***************************************************************************)
(* The /process pipeline of the ffmpeg service (download, transcode,       *)
(* upload, cleanup) as a state machine.  The repository holds the final    *)
(* server (src/server.js, v4.1) and earlier variants of the same handler;  *)
(* the variable `variant` says which server file is the one running, and   *)
(* each handler is split into one action per segment between two awaits.   *)
(* Strings that the code concatenates (paths, keys, URLs) are sequences of *)
(* tokens: "/" is a token of its own, every other token is a run of        *)
(* characters without a slash.                                             *)
(***************************************************************************)
EXTENDS Integers, Sequences, FiniteSets, TLC

\* ------------------------------------------------------------------ bounds
NumRequests == 2
MaxClock == 1

Requests == 1..NumRequests

\* ------------------------------------------------------------------ values
\* The server files: src/server.js (v41) and part_007 (v32) run ffmpeg through
\* exec on tmp files.
\* part_003:116-378 (v20), part_006:1-135 (spawn) and part_008 (v30) stream the
\* download to a file named after Date.now() and run ffmpeg through spawn.
\* part_003:380-527 (fluent) uses tmp files and fluent-ffmpeg; part_003:1-114
\* (exec) and part_005 (copy) use fixed paths and upload nothing; part_010 (v10)
\* lets ffmpeg read the URL and writes under /tmp/processed.
Variants == {"v41", "v32", "v20", "spawn", "v30", "fluent", "exec", "copy", "v10"}
CliVariants == {"v41", "v32"}
SpawnVariants == {"v20", "spawn", "v30"}

\* Math.random().toString(36).slice(2, 9): some seven characters.  The values
\* carry no meaning, so request 1 draws the first one and request 2 either.
RandomSuffixes(r) == IF r = 1 THEN {"k3x9q1a"} ELSE {"k3x9q1a", "p0z7m2b"}

NoPath == <<>>
NoContent == [src |-> "none", enc |-> FALSE, by |-> 0]
EmptyFile(r) == [src |-> "empty", enc |-> FALSE, by |-> r]

\* The body served at a source URL, as stored by request r.
Downloaded(url, r) == [src |-> url, enc |-> FALSE, by |-> r]

\* What ffmpeg writes for an input file: the same source, re-encoded.
Encoded(c, r) == [src |-> c.src, enc |-> TRUE, by |-> r]

\* req.body values: "" and <<>> stand for a missing or empty field.
\* Request 1 names srcA; request 2 the same source or another one.
InputUrls(r) == IF r = 1 THEN {"", "srcA"} ELSE {"", "srcA", "srcB"}
\* Request 1 asks for a.mp4; request 2 for the same key or for another one.
OutputKeys(r) == IF r = 1 THEN {<<>>, <<"a.mp4">>} ELSE {<<>>, <<"a.mp4">>, <<"b.mp4">>}

\* process.env: TRUE when the variable is set.  At most one is missing.
EnvNames == {"R2_ENDPOINT", "R2_BUCKET", "R2_PUBLIC_BASE_URL",
             "R2_ACCESS_KEY_ID", "R2_SECRET_ACCESS_KEY"}
EnvConfigs == {[n \in EnvNames |-> n # miss] : miss \in EnvNames \cup {"nothing"}}

NoResp == [status |-> 0, ok |-> FALSE, url |-> <<>>, key |-> <<>>,
           kind |-> "none", requestId |-> <<>>]

\* ------------------------------------------------------------------ helpers
\* A record with some of its fields replaced.
Upd(rec, new) == [k \in DOMAIN rec |-> IF k \in DOMAIN new THEN new[k] ELSE rec[k]]

FsWrite(f, p, c) == [q \in (DOMAIN f) \cup {p} |-> IF q = p THEN c ELSE f[q]]
FsUnlink(f, p) == [q \in (DOMAIN f) \ {p} |-> f[q]]
FsExists(f, p) == p \in DOMAIN f

Digits36 ==
  <<"0", "1", "2", "3", "4", "5", "6", "7", "8", "9", "a", "b", "c", "d", "e",
    "f", "g", "h", "i", "j", "k", "l", "m", "n", "o", "p", "q", "r", "s", "t",
    "u", "v", "w", "x", "y", "z">>

\* Number.prototype.toString(36), for the clock values of the model.
RECURSIVE ToBase36(_)
ToBase36(n) ==
  IF n < Len(Digits36) THEN <<Digits36[n + 1]>>
  ELSE ToBase36(n \div Len(Digits36)) \o <<Digits36[(n % Len(Digits36)) + 1]>>

IsSlash(t) == t = "/"
EndsWithColon(t) == t \in {"https:", "http:"}

\* String.prototype.replace(/([^:]\/)\/+/g, "$1"): a character that is not a
\* colon, a slash, and one or more further slashes become the character and
\* one slash.  Scans left to right, matches do not overlap.
RECURSIVE CollapseSlashes(_)
CollapseSlashes(s) ==
  IF Len(s) < 3 THEN s
  ELSE IF ~EndsWithColon(s[1]) /\ IsSlash(s[2]) /\ IsSlash(s[3])
       THEN LET rest == SubSeq(s, 3, Len(s))
                RECURSIVE Skip(_)
                Skip(t) == IF Len(t) > 0 /\ IsSlash(t[1]) THEN Skip(Tail(t)) ELSE t
            IN <<s[1], s[2]>> \o CollapseSlashes(Skip(rest))
       ELSE <<s[1]>> \o CollapseSlashes(Tail(s))

\* `${R2_PUBLIC_BASE_URL}`: an unset variable prints as "undefined".
PublicBase(e) ==
  IF e["R2_PUBLIC_BASE_URL"] THEN <<"https:", "/", "/", "cdn.example">>
  ELSE <<"undefined">>

\* `${R2_PUBLIC_BASE_URL}/${outputKey}`.replace(/([^:]\/)\/+/g, "$1")
cdnUrlOf(base, outputKey) == CollapseSlashes(base \o <<"/">> \o outputKey)

cdnUrl(e, outputKey) == cdnUrlOf(PublicBase(e), outputKey)

\* Values of R2_PUBLIC_BASE_URL and of outputKey for the URL computations
\* taken on their own: with and without a trailing slash, with and without
\* a leading slash, with a path, with a doubled slash inside the key.
PublicBases ==
  {<<"https:", "/", "/", "cdn.example">>,
   <<"https:", "/", "/", "cdn.example", "/">>,
   <<"https:", "/", "/", "cdn.example", "/", "media">>,
   <<"https:", "/", "/", "cdn.example", "/", "media", "/">>}
KeyInputs ==
  {<<"a.mp4">>,
   <<"/", "a.mp4">>,
   <<"videos", "/", "a.mp4">>,
   <<"/", "videos", "/", "a.mp4">>,
   <<"videos", "/", "/", "a.mp4">>,
   <<"processed", "/", "a.mp4">>,
   <<"/", "processed", "/", "a.mp4">>}
NoPub == [base |-> <<>>, key |-> <<>>, by |-> "none", putKey |-> <<>>,
          respKey |-> <<>>, url |-> <<>>]

\* The style table of processVideoCLI: the object literal's own properties.
filters ==
  [cinematic |-> "eq=contrast=1.2:brightness=0.1:saturation=1.1",
   vibrant |-> "eq=contrast=1.3:saturation=1.5",
   vintage |-> "curves=vintage,vignette",
   bw |-> "hue=s=0",
   default |-> "scale=1920:1080"]

\* Property names every object literal inherits from Object.prototype, and
\* what `${filters[name]}` prints for them.
ObjectPrototypeNames == {"constructor", "toString", "__proto__"}
Inherited(name) ==
  IF name = "__proto__" THEN "[object Object]"
  ELSE "function " \o (IF name = "constructor" THEN "Object" ELSE name)
         \o "() { [native code] }"

\* req.body.style: absent, a preset, or any other string.
NoStyle == "(absent)"
Styles ==
  {NoStyle, "", "cinematic", "vibrant", "vintage", "bw", "default", "sepia",
   "CINEMATIC", "constructor", "toString", "__proto__"}

\* req.body.ffmpegArgs of part_010: absent or not an array, or an array.
FfmpegArgLists ==
  {[isArray |-> FALSE, items |-> <<>>],
   [isArray |-> TRUE, items |-> <<>>],
   [isArray |-> TRUE, items |-> <<"-vf", "hue=s=0">>],
   [isArray |-> TRUE, items |-> <<"-vf", "hue=s=0", "/tmp/processed/b.mp4">>]}

NoCmd == [style |-> NoStyle, ffmpegArgs |-> [isArray |-> FALSE, items |-> <<>>],
          by |-> "none", filter |-> "", via |-> "none", args |-> <<>>]

\* path.normalize on an absolute path, which is also where the operating
\* system looks the path up: "." and empty segments are dropped and ".."
\* drops the segment before it (the root has none before it).
RECURSIVE ResolveSegments(_, _)
ResolveSegments(todo, done) ==
  IF todo = <<>> THEN done
  ELSE LET t == Head(todo) IN
       IF IsSlash(t) \/ t = "." THEN ResolveSegments(Tail(todo), done)
       ELSE IF t = ".."
       THEN ResolveSegments(Tail(todo),
                            IF done = <<>> THEN done ELSE SubSeq(done, 1, Len(done) - 1))
       ELSE ResolveSegments(Tail(todo), Append(done, t))

PathNormalize(p) ==
  LET segs == ResolveSegments(p, <<>>)
      RECURSIVE FromSegments(_)
      FromSegments(ss) ==
        IF ss = <<>> THEN <<>> ELSE <<"/", Head(ss)>> \o FromSegments(Tail(ss))
  IN IF segs = <<>> THEN <<"/">> ELSE FromSegments(segs)

\* req.body.outputKey values for the path computations taken on their own:
\* plain names, names the handlers use themselves, and keys that climb.
PathKeyInputs ==
  LET prefixes == {<<>>, <<"/">>, <<".", "/">>, <<"..", "/">>, <<"..", "/", "..", "/">>,
                   <<"videos", "/">>, <<"processed", "/">>}
      names == {"a.mp4", "b.mp4", "input.mp4", "output.mp4", ".."}
  IN {<<>>} \cup {pre \o <<n>> : pre \in prefixes, n \in names}
NoLoc == [outputKey |-> <<>>, by |-> "none", root |-> <<>>, inPath |-> <<>>,
          outPath |-> <<>>]

\* process.env.NODE_TLS_REJECT_UNAUTHORIZED: unset, or a string.
TlsEnvValues == {"(unset)", "0", "1", "true", "false"}
NoTls == [envVal |-> "(unset)", by |-> "none", rejectUnauthorized |-> TRUE]

\* The download-to-file helpers: downloadToTmp (part_003, https.get),
\* downloadToFile with streamToFile (part_003, node-fetch) and the stream
\* save of part_006 (global fetch).
Helpers == {"downloadToTmp", "streamToFile", "streamSave"}
MaxChunks == 4
NoDl == [helper |-> "none", size |-> 0, pc |-> "none", written |-> 0, why |-> "none"]

\* The events of the transfer for which the helper registered a listener
\* that settles its promise.
Listeners(helper) ==
  CASE helper = "downloadToTmp" -> {"finish", "requestError"}
    [] helper = "streamToFile" -> {"finish", "requestError", "writeError"}
    [] OTHER -> {}

\* The outputKey strings a caller may hold: every string of at most MaxKeyLen
\* pieces out of a blank, a slash, the word "processed" and a file name.
MaxKeyLen == 3
NormKeyInputs ==
  LET pieces == {" ", "/", "processed", "a.mp4"}
  IN UNION {[1..n -> pieces] : n \in 0..MaxKeyLen}
NoKey == [input |-> <<>>, by |-> "none", sent |-> <<>>, handled |-> FALSE,
          cleanKey |-> <<>>]

\* ------------------------------------------------------------------ state
VARIABLES
  variant,        \* which server file is running
  env,            \* process.env, read once at module load
  s3,             \* the storage client, or FALSE for null
  isFfmpegReady,  \* the cached tool-availability flag
  ffmpegPath,     \* the cached tool path
  listen,         \* the app.listen callback: "init", "checking", "done"
  health,         \* the GET /health handler: "idle", "checking"
  clock,          \* Date.now()
  tmpSeq,         \* names handed out by tmp.fileSync so far
  files,          \* the filesystem under /tmp: path -> content
  bucket,         \* the object store: key -> content
  run,            \* per request: the handler's locals and position
  pub,            \* one key and URL computation taken on its own
  cmd,            \* one transcoder invocation taken on its own
  tls,            \* one TLS configuration taken on its own
  loc,            \* one scratch-path computation taken on its own
  dl,             \* one download-to-file promise taken on its own
  nk              \* one output-key normalisation taken on its own

vars == <<variant, env, s3, isFfmpegReady, ffmpegPath, listen, health, clock, tmpSeq,
          files, bucket, run, pub, cmd, tls, loc, dl, nk>>

shared == <<variant, env, s3, pub, cmd, tls, loc, dl, nk>>
tool == <<isFfmpegReady, ffmpegPath, listen, health>>

IdleRun ==
  [pc |-> "idle", inputUrl |-> "", outputKey |-> <<>>, requestId |-> <<>>,
   inPath |-> NoPath, outPath |-> NoPath, buf |-> NoContent, resp |-> NoResp,
   putOk |-> FALSE, publicUrl |-> <<>>, log |-> <<>>]

\* The S3Client is built when endpoint and credentials are set; in server.js
\* a constructor that throws is caught and leaves s3 null.
S3Init(v, e) ==
  LET configured == e["R2_ENDPOINT"] /\ e["R2_ACCESS_KEY_ID"] /\ e["R2_SECRET_ACCESS_KEY"]
  IN IF v = "v41" /\ configured THEN {TRUE, FALSE} ELSE {configured}

Loaded ==
  /\ variant \in Variants
  /\ env \in EnvConfigs
  /\ s3 \in S3Init(variant, env)
  /\ isFfmpegReady = FALSE
  /\ ffmpegPath = "ffmpeg"
  /\ listen = "init"
  /\ health = "idle"
  /\ clock = 0
  /\ tmpSeq = 0
  /\ files = <<>>
  /\ bucket = <<>>
  /\ run = [r \in Requests |-> IdleRun]

Init ==
  /\ Loaded
  /\ pub = NoPub
  /\ cmd = NoCmd
  /\ tls = NoTls
  /\ loc = NoLoc
  /\ dl = NoDl
  /\ nk = NoKey

\* ------------------------------------------------------------------ log
Log(r, evs) == run[r].log \o evs
Count(log, ev) == Cardinality({i \in 1..Len(log) : log[i] = ev})
Has(log, ev) == \E i \in 1..Len(log) : log[i] = ev
Before(log, a, b) ==
  \A j \in 1..Len(log) : log[j] = b => \E i \in 1..(j - 1) : log[i] = a

Set(r, new) == run' = [run EXCEPT ![r] = Upd(run[r], new)]

\* ------------------------------------------------------------------ clock
Tick ==
  /\ clock < MaxClock
  /\ clock' = clock + 1
  /\ UNCHANGED <<shared, tool, tmpSeq, files, bucket, run>>

\* ------------------------------------------------------------------ tool check
\* checkFfmpegInstallation(): `which ffmpeg` caches the path, `ffmpeg -version`
\* confirms it and true is returned; if either throws, false is returned (the
\* path stays cached when only the second one throws).
checkFfmpegInstallation(outcome) ==
  [ready |-> outcome = "ok",
   path |-> IF outcome = "which_throws" THEN ffmpegPath ELSE "/usr/bin/ffmpeg"]

\* The app.listen callback up to `await checkFfmpegInstallation()`.
ListenStart ==
  /\ variant \in CliVariants
  /\ listen = "init"
  /\ listen' = "checking"
  /\ UNCHANGED <<shared, isFfmpegReady, ffmpegPath, health, clock, tmpSeq, files, bucket, run>>

\* isFfmpegReady = await checkFfmpegInstallation()
ListenSettle ==
  /\ listen = "checking"
  /\ \E outcome \in {"ok", "version_throws", "which_throws"} :
       LET c == checkFfmpegInstallation(outcome) IN
       /\ isFfmpegReady' = c.ready
       /\ ffmpegPath' = c.path
  /\ listen' = "done"
  /\ UNCHANGED <<shared, health, clock, tmpSeq, files, bucket, run>>

\* app.get("/health") up to `await checkFfmpegInstallation()`, which it
\* reaches when the flag is not set; with the flag set the handler only
\* answers, which changes nothing.  One health request at a time.
HealthStart ==
  /\ variant \in CliVariants
  /\ listen # "init"
  /\ health = "idle"
  /\ ~isFfmpegReady
  /\ health' = "checking"
  /\ UNCHANGED <<shared, isFfmpegReady, ffmpegPath, listen, clock, tmpSeq, files, bucket, run>>

\* isFfmpegReady = await checkFfmpegInstallation() in the health handler,
\* then res.json.
HealthSettle ==
  /\ health = "checking"
  /\ \E outcome \in {"ok", "version_throws", "which_throws"} :
       LET c == checkFfmpegInstallation(outcome) IN
       /\ isFfmpegReady' = c.ready
       /\ ffmpegPath' = c.path
  /\ health' = "idle"
  /\ UNCHANGED <<shared, listen, clock, tmpSeq, files, bucket, run>>

R2Configured(e) ==
  e["R2_ENDPOINT"] /\ e["R2_BUCKET"] /\ e["R2_ACCESS_KEY_ID"] /\ e["R2_SECRET_ACCESS_KEY"]

\* The store accepts a PUT only from a client with endpoint, credentials and
\* bucket.
PutCanSucceed == R2Configured(env)

\* ------------------------------------------------------------------ responses
Resp(status, ok, url, key, kind, requestId) ==
  [status |-> status, ok |-> ok, url |-> url, key |-> key, kind |-> kind,
   requestId |-> requestId]

\* A rejection that forgets the correlation identifier.
Reject_Anonymous(r, in, status, kind, requestId) ==
  Set(r, [pc |-> "done", inputUrl |-> in.inputUrl, outputKey |-> in.outputKey,
          requestId |-> requestId,
          resp |-> Resp(status, FALSE, <<>>, <<>>, kind, <<>>),
          log |-> Log(r, <<"resp_fail">>)])

Reject(r, in, status, kind, requestId) ==
  Set(r, [pc |-> "done", inputUrl |-> in.inputUrl, outputKey |-> in.outputKey,
          requestId |-> requestId,
          resp |-> Resp(status, FALSE, <<>>, <<>>, kind, requestId),
          log |-> Log(r, <<"resp_fail">>)])

\* req.body: the fields a request can carry.
Bodies(r) == [inputUrl : InputUrls(r), outputKey : OutputKeys(r)]

\* ------------------------------------------------------------------ tmp
\* tmp.fileSync({postfix: ".mp4"}): a fresh name, created empty.
TmpName(n) == <<"/", "tmp", "/", "tmp-", ToString(n), ".mp4">>

\* ------------------------------------------------------------------ server.js (v4.1), part_007 (v3.2)
\* A catch that retries a failed download once instead of giving up.
Cli_Catch_RetryFetch(r, kind, ev) ==
  IF ev = "fail_fetch" /\ Count(run[r].log, "fetch") < 2
  THEN Set(r, [pc |-> "fetch", log |-> Log(r, <<ev, "fetch">>)])
  ELSE Set(r, [pc |-> "cleanup",
               resp |-> Resp(500, FALSE, <<>>, <<>>, kind, run[r].requestId),
               log |-> Log(r, <<ev, "resp_fail">>)])

\* A catch that shrugs off a failed download and goes on to the transcoder.
Cli_Catch_PressOn(r, kind, ev) ==
  IF ev = "fail_fetch"
  THEN Set(r, [pc |-> "ffmpeg", log |-> Log(r, <<ev, "ffmpeg">>)])
  ELSE Set(r, [pc |-> "cleanup",
               resp |-> Resp(500, FALSE, <<>>, <<>>, kind, run[r].requestId),
               log |-> Log(r, <<ev, "resp_fail">>)])

\* catch (error): the cleanup is scheduled with setImmediate, then the 500
\* response is sent.
Cli_Catch(r, kind, ev) ==
  Set(r, [pc |-> "cleanup",
          resp |-> Resp(500, FALSE, <<>>, <<>>, kind, run[r].requestId),
          log |-> Log(r, <<ev, "resp_fail">>)])

\* Preflight without its validation test: a handler that forgot to look at
\* inputUrl and outputKey before acquiring the workspace.
Preflight_SkipValidation(order, in) ==
  LET fails(c) ==
        CASE c = "validation" -> FALSE
          [] c = "toolNotAvailable" -> ~isFfmpegReady
          [] c = "notConfigured" -> ~s3
      bad == {i \in 1..Len(order) : fails(order[i])}
  IN IF bad = {} THEN "pass"
     ELSE order[CHOOSE i \in bad : \A j \in bad : i <= j]

\* Preflight without its tool-flag test: a handler that starts the pipeline
\* whatever the cached availability says.
Preflight_SkipTool(order, in) ==
  LET fails(c) ==
        CASE c = "validation" -> in.inputUrl = "" \/ in.outputKey = <<>>
          [] c = "toolNotAvailable" -> FALSE
          [] c = "notConfigured" -> ~s3
      bad == {i \in 1..Len(order) : fails(order[i])}
  IN IF bad = {} THEN "pass"
     ELSE order[CHOOSE i \in bad : \A j \in bad : i <= j]

\* The pre-flight checks in the order the handler makes them: the first one
\* that fails decides the response.
Preflight(order, in) ==
  LET fails(c) ==
        CASE c = "validation" -> in.inputUrl = "" \/ in.outputKey = <<>>
          [] c = "toolNotAvailable" -> ~isFfmpegReady
          [] c = "notConfigured" -> ~s3
      bad == {i \in 1..Len(order) : fails(order[i])}
  IN IF bad = {} THEN "pass"
     ELSE order[CHOOSE i \in bad : \A j \in bad : i <= j]

PreflightStatus(kind) == IF kind = "validation" THEN 400 ELSE 500

\* From the handler's entry to its first await: the pre-flight checks, the two
\* tmp.fileSync calls and the start of the fetch.  Requests are served once
\* the server listens, and the app.listen callback has then run up to its
\* await.
Cli_Start(r, order) ==
  /\ run[r].pc = "idle"
  /\ listen # "init"
  /\ \E in \in Bodies(r) :
       LET requestId == ToBase36(clock)
           verdict == Preflight(order, in)
       IN
       IF verdict # "pass"
       THEN /\ Reject(r, in, PreflightStatus(verdict), verdict, requestId)
            /\ UNCHANGED <<tmpSeq, files>>
       ELSE \E created \in 0..2 :
              LET tmpIn == IF created >= 1 THEN TmpName(tmpSeq + 1) ELSE NoPath
                  tmpOut == IF created = 2 THEN TmpName(tmpSeq + 2) ELSE NoPath
                  f1 == IF created >= 1 THEN FsWrite(files, tmpIn, EmptyFile(r)) ELSE files
                  f2 == IF created = 2 THEN FsWrite(f1, tmpOut, EmptyFile(r)) ELSE f1
                  got == IF created >= 1 THEN <<"acquire">> ELSE <<>>
              IN /\ tmpSeq' = tmpSeq + created
                 /\ files' = f2
                 /\ Set(r, [pc |-> IF created = 2 THEN "fetch" ELSE "cleanup",
                            inputUrl |-> in.inputUrl, outputKey |-> in.outputKey,
                            requestId |-> requestId,
                            inPath |-> tmpIn, outPath |-> tmpOut,
                            resp |-> IF created = 2 THEN NoResp
                                     ELSE Resp(500, FALSE, <<>>, <<>>, "internal", requestId),
                            log |-> Log(r, got \o (IF created = 2 THEN <<"fetch">>
                                                   ELSE <<"fail_acquire", "resp_fail">>))])
  /\ UNCHANGED <<shared, tool, clock, bucket>>

\* server.js: inputs first, then the tool flag, then the storage client.
V41_Start(r) ==
  /\ variant = "v41"
  /\ Cli_Start(r, <<"validation", "toolNotAvailable", "notConfigured">>)

\* part_007 (v3.2): the tool flag first, then the inputs, then the client.
V32_Start(r) ==
  /\ variant = "v32"
  /\ Cli_Start(r, <<"toolNotAvailable", "validation", "notConfigured">>)

\* downloadToBuffer: await fetch(url, {signal: AbortSignal.timeout(90000)}),
\* then the response.ok test.  A source that never answers is aborted by the
\* signal: the "error" outcome.
Cli_FetchSettle(r) ==
  /\ variant \in CliVariants
  /\ run[r].pc = "fetch"
  /\ \E res \in {"ok", "non2xx", "error"} :
       IF res = "ok" THEN Set(r, [pc |-> "body"])
       ELSE Cli_Catch(r, "fetch", "fail_fetch")
  /\ UNCHANGED <<shared, tool, clock, tmpSeq, files, bucket>>

\* downloadToBuffer: await response.arrayBuffer(); then fs.writeFile starts.
Cli_BodySettle(r) ==
  /\ variant \in CliVariants
  /\ run[r].pc = "body"
  /\ \E ok \in BOOLEAN :
       IF ok THEN Set(r, [pc |-> "write"])
       ELSE Cli_Catch(r, "fetch", "fail_fetch")
  /\ UNCHANGED <<shared, tool, clock, tmpSeq, files, bucket>>

\* await fs.writeFile(tmpIn.name, inputBuffer); then processVideoCLI starts
\* the ffmpeg command with execAsync.
Cli_WriteSettle(r) ==
  /\ variant \in CliVariants
  /\ run[r].pc = "write"
  /\ \E ok \in BOOLEAN :
       IF ok
       THEN /\ files' = FsWrite(files, run[r].inPath, Downloaded(run[r].inputUrl, r))
            /\ Set(r, [pc |-> "ffmpeg", log |-> Log(r, <<"fetch_ok", "ffmpeg">>)])
       ELSE /\ Cli_Catch(r, "fetch", "fail_fetch")
            /\ UNCHANGED files
  /\ UNCHANGED <<shared, tool, clock, tmpSeq, bucket>>

\* processVideoCLI: await execAsync(ffmpegCmd, {timeout: 180000}).  Exit 0
\* resolves, anything else (a non-zero exit, the timeout's kill) throws; ffmpeg
\* exits non-zero when its input file is missing.  Then fs.readFile starts.
Cli_FfmpegSettle(r) ==
  /\ variant \in CliVariants
  /\ run[r].pc = "ffmpeg"
  /\ \E exit \in {0, 1} :
       IF exit = 0
       THEN /\ FsExists(files, run[r].inPath)
            /\ files' = FsWrite(files, run[r].outPath, Encoded(files[run[r].inPath], r))
            /\ Set(r, [pc |-> "read", log |-> Log(r, <<"exit_0", "ffmpeg_ok">>)])
       ELSE /\ Cli_Catch(r, "transcode", "fail_ffmpeg")
            /\ UNCHANGED files
  /\ UNCHANGED <<shared, tool, clock, tmpSeq, bucket>>

\* await fs.readFile(tmpOut.name); then s3.send(new PutObjectCommand) starts.
\* The call carries no abort signal and the client no request timeout: when
\* the store never answers, the promise never settles ("upload_unanswered").
Cli_ReadSettle(r) ==
  /\ variant \in CliVariants
  /\ run[r].pc = "read"
  /\ \E ok \in BOOLEAN, answered \in BOOLEAN :
       IF ok
       THEN /\ FsExists(files, run[r].outPath)
            /\ Set(r, [pc |-> IF answered THEN "upload" ELSE "upload_unanswered",
                       buf |-> files[run[r].outPath],
                       log |-> Log(r, <<"put">>)])
       ELSE /\ answered
            /\ Cli_Catch(r, "read", "fail_read")
  /\ UNCHANGED <<shared, tool, clock, tmpSeq, files, bucket>>

\* An upload that invents its key: the request id is appended to outputKey.
Cli_UploadSettle_FreshKey(r) ==
  /\ variant \in CliVariants
  /\ run[r].pc = "upload"
  /\ \E ok \in BOOLEAN :
       IF ok
       THEN /\ PutCanSucceed
            /\ bucket' = FsWrite(bucket, run[r].outputKey \o run[r].requestId, run[r].buf)
            /\ Set(r, [pc |-> "cleanup", putOk |-> TRUE,
                       resp |-> Resp(200, TRUE,
                                     cdnUrl(env, run[r].outputKey \o run[r].requestId),
                                     run[r].outputKey, "none", run[r].requestId),
                       log |-> Log(r, <<"put_ok", "resp_ok">>)])
       ELSE /\ Cli_Catch(r, "upload", "fail_put")
            /\ UNCHANGED bucket
  /\ UNCHANGED <<shared, tool, clock, tmpSeq, files>>

\* await s3.send(...); then cdnUrl, res.json({success: true, ...}) and the
\* cleanup scheduled with setImmediate.
Cli_UploadSettle(r) ==
  /\ variant \in CliVariants
  /\ run[r].pc = "upload"
  /\ \E ok \in BOOLEAN :
       IF ok
       THEN /\ PutCanSucceed
            /\ bucket' = FsWrite(bucket, run[r].outputKey, run[r].buf)
            /\ Set(r, [pc |-> "cleanup", putOk |-> TRUE,
                       resp |-> Resp(200, TRUE, cdnUrl(env, run[r].outputKey),
                                     run[r].outputKey, "none", run[r].requestId),
                       log |-> Log(r, <<"put_ok", "resp_ok">>)])
       ELSE /\ Cli_Catch(r, "upload", "fail_put")
            /\ UNCHANGED bucket
  /\ UNCHANGED <<shared, tool, clock, tmpSeq, files>>

\* A cleanup whose removal error replaces the response already chosen.
Cli_Cleanup_Escalate(r) ==
  /\ variant \in CliVariants
  /\ run[r].pc = "cleanup"
  /\ \E thrown \in {"none", "in", "out"} :
       /\ thrown = "in" => run[r].inPath # NoPath
       /\ thrown = "out" => run[r].outPath # NoPath
       /\ LET f1 == IF thrown = "in" \/ run[r].inPath = NoPath THEN files
                    ELSE FsUnlink(files, run[r].inPath)
              f2 == IF thrown # "none" \/ run[r].outPath = NoPath THEN f1
                    ELSE FsUnlink(f1, run[r].outPath)
          IN files' = f2
       /\ Set(r, [pc |-> "done",
                  resp |-> IF thrown = "none" THEN run[r].resp
                           ELSE Resp(500, FALSE, <<>>, <<>>, "internal", run[r].requestId),
                  log |-> Log(r, IF thrown = "none" THEN <<"release">>
                                 ELSE <<"release", "release_threw">>)])
  /\ UNCHANGED <<shared, tool, clock, tmpSeq, bucket>>

\* The setImmediate callback: tmpIn.removeCallback(), tmpOut.removeCallback()
\* inside one try; a removal that throws ends the try.
Cli_Cleanup(r) ==
  /\ variant \in CliVariants
  /\ run[r].pc = "cleanup"
  /\ \E thrown \in {"none", "in", "out"} :
       /\ thrown = "in" => run[r].inPath # NoPath
       /\ thrown = "out" => run[r].outPath # NoPath
       /\ LET f1 == IF thrown = "in" \/ run[r].inPath = NoPath THEN files
                    ELSE FsUnlink(files, run[r].inPath)
              f2 == IF thrown # "none" \/ run[r].outPath = NoPath THEN f1
                    ELSE FsUnlink(f1, run[r].outPath)
          IN files' = f2
       /\ Set(r, [pc |-> "done",
                  log |-> Log(r, IF thrown = "none" THEN <<"release">>
                                 ELSE <<"release", "release_threw">>)])
  /\ UNCHANGED <<shared, tool, clock, tmpSeq, bucket>>

Cli(r) ==
  \/ V41_Start(r)
  \/ V32_Start(r)
  \/ Cli_FetchSettle(r)
  \/ Cli_BodySettle(r)
  \/ Cli_WriteSettle(r)
  \/ Cli_FfmpegSettle(r)
  \/ Cli_ReadSettle(r)
  \/ Cli_UploadSettle(r)
  \/ Cli_Cleanup(r)

\* ------------------------------------------------------------------ part_003 (v2.0.0), part_006 (spawn), part_008 (v3.0.0)
\* req.body and the x-service-key header (authorized: the header matches
\* SERVICE_KEY, or no SERVICE_KEY is set).
SpawnBodies(r) ==
  [inputUrl : InputUrls(r), outputKey : OutputKeys(r), filter : {"", "hue=s=0"},
   authorized : BOOLEAN]

\* inPath and outPath: `/tmp/in-${Date.now()}.mp4`, `/tmp/out-${Date.now()}.mp4`.
DateNowPaths(now) ==
  [in |-> <<"/", "tmp", "/", "in-", ToString(now), ".mp4">>,
   out |-> <<"/", "tmp", "/", "out-", ToString(now), ".mp4">>]

\* v3.0.0 adds a random suffix to each name.
V30_Paths(now, rndIn, rndOut) ==
  [in |-> <<"/", "tmp", "/", "in-", ToString(now), "-", rndIn, ".mp4">>,
   out |-> <<"/", "tmp", "/", "out-", ToString(now), "-", rndOut, ".mp4">>]

\* try { if (inPath && existsSync(inPath)) unlinkSync(inPath); the same for
\* outPath } catch: an unlinkSync that throws ends the block.
SyncCleanup(f, inPath, outPath, thrown) ==
  LET f1 == IF thrown = "in" \/ inPath = NoPath \/ ~FsExists(f, inPath) THEN f
            ELSE FsUnlink(f, inPath)
  IN IF thrown # "none" \/ outPath = NoPath \/ ~FsExists(f1, outPath) THEN f1
     ELSE FsUnlink(f1, outPath)

CanThrow(f, inPath, outPath, thrown) ==
  /\ thrown = "in" => FsExists(f, inPath)
  /\ thrown = "out" => FsExists(f, outPath)

\* `${R2_PUBLIC_BASE_URL.replace(/\/$/, "")}/${outputKey}`
StripTrailingSlash(s) ==
  IF Len(s) > 0 /\ IsSlash(s[Len(s)]) THEN SubSeq(s, 1, Len(s) - 1) ELSE s

publicUrlOf(base, outputKey) == StripTrailingSlash(base) \o <<"/">> \o outputKey

publicUrl(e, outputKey) == publicUrlOf(PublicBase(e), outputKey)

\* catch (err): v2.0.0 and v3.0.0 run the cleanup block and answer 500; the
\* spawn variant only answers 500.  f is the filesystem when the catch starts.
Sp_Catch(r, kind, evs, f) ==
  IF variant = "spawn"
  THEN /\ files' = f
       /\ Set(r, [pc |-> "done", resp |-> Resp(500, FALSE, <<>>, <<>>, kind, <<>>),
                  log |-> Log(r, evs \o <<"resp_fail">>)])
  ELSE \E thrown \in {"none", "in", "out"} :
         /\ CanThrow(f, run[r].inPath, run[r].outPath, thrown)
         /\ files' = SyncCleanup(f, run[r].inPath, run[r].outPath, thrown)
         /\ Set(r, [pc |-> "done", resp |-> Resp(500, FALSE, <<>>, <<>>, kind, <<>>),
                    log |-> Log(r, evs \o <<"release", "resp_fail">>)])

\* From the handler's entry to `await fetch(inputUrl)`.
Sp_Start(r) ==
  /\ variant \in SpawnVariants
  /\ run[r].pc = "idle"
  /\ \E in \in SpawnBodies(r) :
       IF ~in.authorized
       THEN Reject(r, in, 401, "unauthorized", <<>>)
       ELSE IF in.inputUrl = "" \/ in.outputKey = <<>> \/ in.filter = ""
       THEN Reject(r, in, 400, "validation", <<>>)
       ELSE IF variant \in {"v20", "v30"} /\ ~R2Configured(env)
       THEN Reject(r, in, 500, "notConfigured", <<>>)
       ELSE \E rndIn \in RandomSuffixes(r), rndOut \in RandomSuffixes(r) :
              LET paths == IF variant = "v30" THEN V30_Paths(clock, rndIn, rndOut)
                           ELSE DateNowPaths(clock)
              IN Set(r, [pc |-> "fetch", inputUrl |-> in.inputUrl,
                         outputKey |-> in.outputKey,
                         inPath |-> paths.in, outPath |-> paths.out,
                         log |-> Log(r, <<"acquire", "fetch">>)])
  /\ UNCHANGED <<shared, tool, clock, tmpSeq, files, bucket>>

\* await fetch(inputUrl) and the resp.ok test; then fs.createWriteStream(inPath)
\* (which creates or truncates the file) and the pipe.
Sp_FetchSettle(r) ==
  /\ variant \in SpawnVariants
  /\ run[r].pc = "fetch"
  /\ \E res \in {"ok", "non2xx", "error"} :
       IF res = "ok"
       THEN /\ files' = FsWrite(files, run[r].inPath, EmptyFile(r))
            /\ Set(r, [pc |-> "stream"])
       ELSE Sp_Catch(r, "fetch", <<"fail_fetch">>, files)
  /\ UNCHANGED <<shared, tool, clock, tmpSeq, bucket>>

\* The stream promise: "finish" resolves, a stream or file error rejects.  The
\* bytes go to the file opened earlier; if its name was unlinked meanwhile the
\* name stays absent.  v2.0.0 and v3.0.0 then fs.statSync(inPath), which throws
\* on a missing file.  Then spawn("ffmpeg", ffmpegArgs).
Sp_StreamSettle(r) ==
  /\ variant \in SpawnVariants
  /\ run[r].pc = "stream"
  /\ \E ok \in BOOLEAN :
       LET there == FsExists(files, run[r].inPath)
           f1 == IF there THEN FsWrite(files, run[r].inPath, Downloaded(run[r].inputUrl, r))
                 ELSE files
       IN IF ~ok THEN Sp_Catch(r, "fetch", <<"fail_fetch">>, files)
          ELSE IF variant \in {"v20", "v30"} /\ ~there
          THEN Sp_Catch(r, "internal", <<"fetch_ok", "fail_stat">>, f1)
          ELSE /\ files' = f1
               /\ Set(r, [pc |-> "ffmpeg", log |-> Log(r, <<"fetch_ok", "ffmpeg">>)])
  /\ UNCHANGED <<shared, tool, clock, tmpSeq, bucket>>

\* ff.on("close", code): code 0 resolves (v3.0.0: unless stderr mentioned an
\* error), another code rejects; ffmpeg exits non-zero on a missing input.
\* Then fs.readFileSync(outPath) and r2.send(new PutObjectCommand) start.
Sp_FfmpegSettle(r) ==
  /\ variant \in SpawnVariants
  /\ run[r].pc = "ffmpeg"
  /\ \E code \in {0, 1}, hasError \in BOOLEAN :
       /\ hasError => variant = "v30" /\ code = 0
       /\ IF code = 0
          THEN /\ FsExists(files, run[r].inPath)
               /\ LET out == Encoded(files[run[r].inPath], r)
                      f1 == FsWrite(files, run[r].outPath, out)
                  IN IF hasError
                     THEN Sp_Catch(r, "transcode", <<"exit_0", "fail_ffmpeg">>, f1)
                     ELSE /\ files' = f1
                          /\ Set(r, [pc |-> "upload", buf |-> out,
                                     log |-> Log(r, <<"exit_0", "ffmpeg_ok", "put">>)])
          ELSE Sp_Catch(r, "transcode", <<"fail_ffmpeg">>, files)
  /\ UNCHANGED <<shared, tool, clock, tmpSeq, bucket>>

\* await r2.send(...).  On success v2.0.0 and v3.0.0 run the cleanup block, the
\* spawn variant starts two fs.unlink; then publicUrl is built from
\* R2_PUBLIC_BASE_URL.replace(...), which throws when the variable is unset
\* (the catch follows), and the success response is sent.
Sp_UploadSettle(r) ==
  /\ variant \in SpawnVariants
  /\ run[r].pc = "upload"
  /\ \E ok \in BOOLEAN :
       IF ~ok
       THEN /\ Sp_Catch(r, "upload", <<"fail_put">>, files)
            /\ UNCHANGED bucket
       ELSE /\ PutCanSucceed
            /\ bucket' = FsWrite(bucket, run[r].outputKey, run[r].buf)
            /\ IF variant = "spawn"
               THEN /\ files' = files
                    /\ IF env["R2_PUBLIC_BASE_URL"]
                       THEN Set(r, [pc |-> "cleanup", putOk |-> TRUE,
                                    resp |-> Resp(200, TRUE, publicUrl(env, run[r].outputKey),
                                                  run[r].outputKey, "none", <<>>),
                                    log |-> Log(r, <<"put_ok", "resp_ok">>)])
                       ELSE Set(r, [pc |-> "cleanup", putOk |-> TRUE,
                                    resp |-> Resp(500, FALSE, <<>>, <<>>, "internal", <<>>),
                                    log |-> Log(r, <<"put_ok", "fail_url", "resp_fail">>)])
               ELSE \E t1 \in {"none", "in", "out"} :
                      /\ CanThrow(files, run[r].inPath, run[r].outPath, t1)
                      /\ LET f1 == SyncCleanup(files, run[r].inPath, run[r].outPath, t1)
                         IN IF env["R2_PUBLIC_BASE_URL"]
                            THEN /\ files' = f1
                                 /\ Set(r, [pc |-> "done", putOk |-> TRUE,
                                            resp |-> Resp(200, TRUE,
                                                          publicUrl(env, run[r].outputKey),
                                                          run[r].outputKey, "none", <<>>),
                                            log |-> Log(r, <<"put_ok", "release", "resp_ok">>)])
                            ELSE \E t2 \in {"none", "in", "out"} :
                                   /\ CanThrow(f1, run[r].inPath, run[r].outPath, t2)
                                   /\ files' = SyncCleanup(f1, run[r].inPath, run[r].outPath, t2)
                                   /\ Set(r, [pc |-> "done", putOk |-> TRUE,
                                              resp |-> Resp(500, FALSE, <<>>, <<>>,
                                                            "internal", <<>>),
                                              log |-> Log(r, <<"put_ok", "release", "fail_url",
                                                               "release", "resp_fail">>)])
  /\ UNCHANGED <<shared, tool, clock, tmpSeq>>

\* The spawn variant's two fs.unlink callbacks: each removes its file or logs
\* the error.
Spawn_Unlink(r) ==
  /\ variant = "spawn"
  /\ run[r].pc = "cleanup"
  /\ \E failed \in SUBSET {"in", "out"} :
       LET f1 == IF "in" \in failed \/ ~FsExists(files, run[r].inPath) THEN files
                 ELSE FsUnlink(files, run[r].inPath)
           f2 == IF "out" \in failed \/ ~FsExists(f1, run[r].outPath) THEN f1
                 ELSE FsUnlink(f1, run[r].outPath)
       IN /\ files' = f2
          /\ Set(r, [pc |-> "done",
                     log |-> Log(r, IF failed = {} THEN <<"release">>
                                    ELSE <<"release", "release_threw">>)])
  /\ UNCHANGED <<shared, tool, clock, tmpSeq, bucket>>

Sp(r) ==
  \/ Sp_Start(r)
  \/ Sp_FetchSettle(r)
  \/ Sp_StreamSettle(r)
  \/ Sp_FfmpegSettle(r)
  \/ Sp_UploadSettle(r)
  \/ Spawn_Unlink(r)

\* ------------------------------------------------------------------ part_003:380-527 (fluent-ffmpeg)
\* catch (err): answers 500; the tmp files are out of its scope.
Fl_Catch(r, kind, evs) ==
  Set(r, [pc |-> "done", resp |-> Resp(500, FALSE, <<>>, <<>>, kind, <<>>),
          log |-> Log(r, evs \o <<"resp_fail">>)])

\* Validation, the two tmp.fileSync calls, and downloadToFile up to its fetch.
Fl_Start(r) ==
  /\ variant = "fluent"
  /\ run[r].pc = "idle"
  /\ \E in \in Bodies(r) :
       IF in.inputUrl = "" \/ in.outputKey = <<>>
       THEN /\ Reject(r, in, 400, "validation", <<>>)
            /\ UNCHANGED <<tmpSeq, files>>
       ELSE \E created \in 0..2 :
              LET tmpIn == IF created >= 1 THEN TmpName(tmpSeq + 1) ELSE NoPath
                  tmpOut == IF created = 2 THEN TmpName(tmpSeq + 2) ELSE NoPath
                  f1 == IF created >= 1 THEN FsWrite(files, tmpIn, EmptyFile(r)) ELSE files
                  f2 == IF created = 2 THEN FsWrite(f1, tmpOut, EmptyFile(r)) ELSE f1
                  got == IF created >= 1 THEN <<"acquire">> ELSE <<>>
              IN /\ tmpSeq' = tmpSeq + created
                 /\ files' = f2
                 /\ Set(r, [pc |-> IF created = 2 THEN "fetch" ELSE "done",
                            inputUrl |-> in.inputUrl, outputKey |-> in.outputKey,
                            inPath |-> tmpIn, outPath |-> tmpOut,
                            resp |-> IF created = 2 THEN NoResp
                                     ELSE Resp(500, FALSE, <<>>, <<>>, "internal", <<>>),
                            log |-> Log(r, got \o (IF created = 2 THEN <<"fetch">>
                                                   ELSE <<"fail_acquire", "resp_fail">>))])
  /\ UNCHANGED <<shared, tool, clock, bucket>>

\* downloadToFile: await fetch(url), the resp.ok test, then streamToFile opens
\* the write stream and pipes.
Fl_FetchSettle(r) ==
  /\ variant = "fluent"
  /\ run[r].pc = "fetch"
  /\ \E res \in {"ok", "non2xx", "error"} :
       IF res = "ok" THEN Set(r, [pc |-> "stream"])
       ELSE Fl_Catch(r, "fetch", <<"fail_fetch">>)
  /\ UNCHANGED <<shared, tool, clock, tmpSeq, files, bucket>>

\* streamToFile: "finish" resolves, a write error rejects.  Then runFfmpeg.
Fl_StreamSettle(r) ==
  /\ variant = "fluent"
  /\ run[r].pc = "stream"
  /\ \E ok \in BOOLEAN :
       IF ok
       THEN /\ files' = FsWrite(files, run[r].inPath, Downloaded(run[r].inputUrl, r))
            /\ Set(r, [pc |-> "ffmpeg", log |-> Log(r, <<"fetch_ok", "ffmpeg">>)])
       ELSE /\ Fl_Catch(r, "fetch", <<"fail_fetch">>)
            /\ UNCHANGED files
  /\ UNCHANGED <<shared, tool, clock, tmpSeq, bucket>>

\* runFfmpeg: "end" resolves, "error" rejects.  Then fsp.readFile starts.
Fl_FfmpegSettle(r) ==
  /\ variant = "fluent"
  /\ run[r].pc = "ffmpeg"
  /\ \E ok \in BOOLEAN :
       IF ok
       THEN /\ FsExists(files, run[r].inPath)
            /\ files' = FsWrite(files, run[r].outPath, Encoded(files[run[r].inPath], r))
            /\ Set(r, [pc |-> "read", log |-> Log(r, <<"ffmpeg_ok">>)])
       ELSE /\ Fl_Catch(r, "transcode", <<"fail_ffmpeg">>)
            /\ UNCHANGED files
  /\ UNCHANGED <<shared, tool, clock, tmpSeq, bucket>>

\* await fsp.readFile(tmpOut.name); then s3.send starts.
Fl_ReadSettle(r) ==
  /\ variant = "fluent"
  /\ run[r].pc = "read"
  /\ \E ok \in BOOLEAN :
       IF ok
       THEN /\ FsExists(files, run[r].outPath)
            /\ Set(r, [pc |-> "upload", buf |-> files[run[r].outPath],
                       log |-> Log(r, <<"put">>)])
       ELSE Fl_Catch(r, "read", <<"fail_read">>)
  /\ UNCHANGED <<shared, tool, clock, tmpSeq, files, bucket>>

\* R2_PUBLIC_BASE_URL ? `${R2_PUBLIC_BASE_URL}/${outputKey}` : outputKey
Fl_publicUrl(e, outputKey) ==
  IF e["R2_PUBLIC_BASE_URL"] THEN PublicBase(e) \o <<"/">> \o outputKey ELSE outputKey

\* await s3.send(...); then publicUrl, the two safeUnlink calls (fs.unlink with
\* an empty callback) and the success response.
Fl_UploadSettle(r) ==
  /\ variant = "fluent"
  /\ run[r].pc = "upload"
  /\ \E ok \in BOOLEAN :
       IF ok
       THEN /\ PutCanSucceed
            /\ bucket' = FsWrite(bucket, run[r].outputKey, run[r].buf)
            /\ Set(r, [pc |-> "cleanup", putOk |-> TRUE,
                       resp |-> Resp(200, TRUE, Fl_publicUrl(env, run[r].outputKey),
                                     run[r].outputKey, "none", <<>>),
                       log |-> Log(r, <<"put_ok", "resp_ok">>)])
       ELSE /\ Fl_Catch(r, "upload", <<"fail_put">>)
            /\ UNCHANGED bucket
  /\ UNCHANGED <<shared, tool, clock, tmpSeq, files>>

\* safeUnlink: fs.unlink(p, () => {}) for each file; an error is dropped.
Fl_Unlink(r) ==
  /\ variant = "fluent"
  /\ run[r].pc = "cleanup"
  /\ \E failed \in SUBSET {"in", "out"} :
       LET f1 == IF "in" \in failed \/ ~FsExists(files, run[r].inPath) THEN files
                 ELSE FsUnlink(files, run[r].inPath)
           f2 == IF "out" \in failed \/ ~FsExists(f1, run[r].outPath) THEN f1
                 ELSE FsUnlink(f1, run[r].outPath)
       IN /\ files' = f2
          /\ Set(r, [pc |-> "done",
                     log |-> Log(r, IF failed = {} THEN <<"release">>
                                    ELSE <<"release", "release_threw">>)])
  /\ UNCHANGED <<shared, tool, clock, tmpSeq, bucket>>

Fl(r) ==
  \/ Fl_Start(r)
  \/ Fl_FetchSettle(r)
  \/ Fl_StreamSettle(r)
  \/ Fl_FfmpegSettle(r)
  \/ Fl_ReadSettle(r)
  \/ Fl_UploadSettle(r)
  \/ Fl_Unlink(r)

\* ------------------------------------------------------------------ part_003:1-114 (exec, fixed paths)
tmpIn == <<"/", "tmp", "/", "input.mp4">>
tmpOut == <<"/", "tmp", "/", "output.mp4">>

\* req.body and whether x-service-key equals the service key.
ExecBodies(r) ==
  [inputUrl : InputUrls(r), outputKey : OutputKeys(r), authorized : BOOLEAN]

\* process.env.R2_PUBLIC_BASE_URL || "https://cdn.viralvid360.com"
DefaultedBase(e) ==
  IF e["R2_PUBLIC_BASE_URL"] THEN PublicBase(e)
  ELSE <<"https:", "/", "/", "cdn.viralvid360.com">>

Ex_Catch(r, kind, evs) ==
  Set(r, [pc |-> "done", resp |-> Resp(500, FALSE, <<>>, <<>>, kind, <<>>),
          log |-> Log(r, evs \o <<"resp_fail">>)])

\* The key check, the validation, and downloadToTmp up to https.get: the write
\* stream on /tmp/input.mp4 is opened (created or truncated) first.
Ex_Start(r) ==
  /\ variant = "exec"
  /\ run[r].pc = "idle"
  /\ \E in \in ExecBodies(r) :
       IF ~in.authorized
       THEN /\ Reject(r, in, 401, "unauthorized", <<>>)
            /\ UNCHANGED files
       ELSE IF in.inputUrl = "" \/ in.outputKey = <<>>
       THEN /\ Reject(r, in, 400, "validation", <<>>)
            /\ UNCHANGED files
       ELSE /\ files' = FsWrite(files, tmpIn, EmptyFile(r))
            /\ Set(r, [pc |-> "fetch", inputUrl |-> in.inputUrl,
                       outputKey |-> in.outputKey, inPath |-> tmpIn, outPath |-> tmpOut,
                       log |-> Log(r, <<"acquire", "fetch">>)])
  /\ UNCHANGED <<shared, tool, clock, tmpSeq, bucket>>

\* downloadToTmp: the https.get callback (statusCode 200 pipes, another status
\* rejects) or its "error" event.
Ex_FetchSettle(r) ==
  /\ variant = "exec"
  /\ run[r].pc = "fetch"
  /\ \E res \in {"ok", "non2xx", "error"} :
       IF res = "ok" THEN Set(r, [pc |-> "stream"])
       ELSE Ex_Catch(r, "fetch", <<"fail_fetch">>)
  /\ UNCHANGED <<shared, tool, clock, tmpSeq, files, bucket>>

\* file.on("finish"): the file is closed and the promise resolves; then
\* exec(ffmpegCmd) starts.
Ex_StreamSettle(r) ==
  /\ variant = "exec"
  /\ run[r].pc = "stream"
  /\ files' = FsWrite(files, tmpIn, Downloaded(run[r].inputUrl, r))
  /\ Set(r, [pc |-> "ffmpeg", log |-> Log(r, <<"fetch_ok", "ffmpeg">>)])
  /\ UNCHANGED <<shared, tool, clock, tmpSeq, bucket>>

\* The exec callback: err rejects; otherwise publicUrl is built and the
\* response {ok: true, publicUrl} is sent.  Nothing is uploaded or removed.
Ex_FfmpegSettle(r) ==
  /\ variant = "exec"
  /\ run[r].pc = "ffmpeg"
  /\ \E ok \in BOOLEAN :
       IF ok
       THEN /\ FsExists(files, tmpIn)
            /\ files' = FsWrite(files, tmpOut, Encoded(files[tmpIn], r))
            /\ Set(r, [pc |-> "done",
                       resp |-> Resp(200, TRUE,
                                     DefaultedBase(env) \o <<"/">> \o run[r].outputKey,
                                     run[r].outputKey, "none", <<>>),
                       log |-> Log(r, <<"ffmpeg_ok", "resp_ok">>)])
       ELSE /\ Ex_Catch(r, "transcode", <<"fail_ffmpeg">>)
            /\ UNCHANGED files
  /\ UNCHANGED <<shared, tool, clock, tmpSeq, bucket>>

Ex(r) ==
  \/ Ex_Start(r)
  \/ Ex_FetchSettle(r)
  \/ Ex_StreamSettle(r)
  \/ Ex_FfmpegSettle(r)

\* ------------------------------------------------------------------ part_005 (copy, no ffmpeg, no upload)
inputPath == <<"/", "tmp", "/", "input.mp4">>

\* `/tmp/${outputKey}`
outLocalPath(outputKey) == <<"/", "tmp", "/">> \o outputKey

\* What fs.copyFileSync writes: the bytes of the source file.
Copied(c, r) == [src |-> c.src, enc |-> c.enc, by |-> r]

Cp_Catch(r, kind, evs) ==
  Set(r, [pc |-> "done", resp |-> Resp(500, FALSE, <<>>, <<>>, kind, <<>>),
          log |-> Log(r, evs \o <<"resp_fail">>)])

\* The two validation tests, then `await fetch(inputUrl)`.
Cp_Start(r) ==
  /\ variant = "copy"
  /\ run[r].pc = "idle"
  /\ \E in \in Bodies(r) :
       IF in.inputUrl = "" \/ in.outputKey = <<>>
       THEN Reject(r, in, 400, "validation", <<>>)
       ELSE Set(r, [pc |-> "fetch", inputUrl |-> in.inputUrl,
                    outputKey |-> in.outputKey, log |-> Log(r, <<"fetch">>)])
  /\ UNCHANGED <<shared, tool, clock, tmpSeq, files, bucket>>

\* await fetch: a non-ok status is answered with 400, a rejection goes to the
\* catch; then `await sourceResp.arrayBuffer()`.
Cp_FetchSettle(r) ==
  /\ variant = "copy"
  /\ run[r].pc = "fetch"
  /\ \E res \in {"ok", "non2xx", "error"} :
       CASE res = "ok" -> Set(r, [pc |-> "body"])
         [] res = "non2xx" ->
              Set(r, [pc |-> "done", resp |-> Resp(400, FALSE, <<>>, <<>>, "fetch", <<>>),
                      log |-> Log(r, <<"fail_fetch", "resp_fail">>)])
         [] res = "error" -> Cp_Catch(r, "fetch", <<"fail_fetch">>)
  /\ UNCHANGED <<shared, tool, clock, tmpSeq, files, bucket>>

\* After arrayBuffer, in one synchronous stretch: writeFileSync(/tmp/input.mp4),
\* ensureDirForFile, copyFileSync to /tmp/<outputKey>, the URL and the response.
Cp_BodySettle(r) ==
  /\ variant = "copy"
  /\ run[r].pc = "body"
  /\ \E res \in {"ok", "bodyError", "writeError"} :
       IF res = "ok"
       THEN LET in == Downloaded(run[r].inputUrl, r)
                out == outLocalPath(run[r].outputKey)
                f1 == FsWrite(files, inputPath, in)
            IN /\ files' = FsWrite(f1, out, Copied(f1[inputPath], r))
               /\ Set(r, [pc |-> "done", inPath |-> inputPath, outPath |-> out,
                          resp |-> Resp(200, TRUE,
                                        DefaultedBase(env) \o <<"/">> \o run[r].outputKey,
                                        run[r].outputKey, "none", <<>>),
                          log |-> Log(r, <<"acquire", "fetch_ok", "copy", "resp_ok">>)])
       ELSE /\ Cp_Catch(r, IF res = "bodyError" THEN "fetch" ELSE "internal",
                        <<"fail_fetch">>)
            /\ UNCHANGED files
  /\ UNCHANGED <<shared, tool, clock, tmpSeq, bucket>>

Cp(r) ==
  \/ Cp_Start(r)
  \/ Cp_FetchSettle(r)
  \/ Cp_BodySettle(r)

\* ------------------------------------------------------------------ part_010 (ffmpeg reads the URL)
IsSpace(t) == t = " "

RECURSIVE TrimLeft(_)
TrimLeft(s) == IF Len(s) > 0 /\ IsSpace(s[1]) THEN TrimLeft(Tail(s)) ELSE s

RECURSIVE TrimRight(_)
TrimRight(s) ==
  IF Len(s) > 0 /\ IsSpace(s[Len(s)]) THEN TrimRight(SubSeq(s, 1, Len(s) - 1)) ELSE s

\* normalizeOutputKey: trim, drop one leading "/", then drop a leading
\* "processed/".
normalizeOutputKey(outputKey) ==
  LET key == TrimRight(TrimLeft(outputKey))
      k1 == IF Len(key) > 0 /\ IsSlash(key[1]) THEN Tail(key) ELSE key
  IN IF Len(k1) >= 2 /\ k1[1] = "processed" /\ IsSlash(k1[2])
     THEN SubSeq(k1, 3, Len(k1))
     ELSE k1

\* normalizeOutputKey(outputKey || "output.mp4")
cleanKey(outputKey) ==
  normalizeOutputKey(IF outputKey = <<>> THEN <<"output.mp4">> ELSE outputKey)

\* path.join("/tmp/processed", cleanKey)
localOut(outputKey) ==
  PathNormalize(<<"/", "tmp", "/", "processed", "/">> \o cleanKey(outputKey))

\* The key handed to uploadToR2: `processed/${cleanKey}`
ProcessedKey(outputKey) == <<"processed", "/">> \o cleanKey(outputKey)

\* uploadToR2's return value: the public base joined to the key, or endpoint,
\* bucket and key.
V10_urlOf(base, key) == base \o <<"/">> \o key

V10_publicUrl(e, key) ==
  IF e["R2_PUBLIC_BASE_URL"] THEN V10_urlOf(PublicBase(e), key)
  ELSE <<"https:", "/", "/", "r2.example", "/", "bucket", "/">> \o key

V10_Catch(r, kind, evs) ==
  Set(r, [pc |-> "done", resp |-> Resp(500, FALSE, <<>>, <<>>, kind, <<>>),
          log |-> Log(r, evs \o <<"resp_fail">>)])

\* The inputUrl test, cleanKey and localOut, then `await ensureDirForFile`.
V10_Start(r) ==
  /\ variant = "v10"
  /\ run[r].pc = "idle"
  /\ \A q \in Requests : run[q].pc # "exited"
  /\ \E in \in Bodies(r) :
       IF in.inputUrl = ""
       THEN Reject(r, in, 400, "validation", <<>>)
       ELSE Set(r, [pc |-> "mkdir", inputUrl |-> in.inputUrl,
                    outputKey |-> in.outputKey, outPath |-> localOut(in.outputKey),
                    log |-> Log(r, <<"acquire">>)])
  /\ UNCHANGED <<shared, tool, clock, tmpSeq, files, bucket>>

\* await fs.promises.mkdir(dir, {recursive: true}); then runFFmpeg spawns
\* ffmpeg on the URL.
V10_MkdirSettle(r) ==
  /\ variant = "v10"
  /\ run[r].pc = "mkdir"
  /\ \E ok \in BOOLEAN :
       IF ok THEN Set(r, [pc |-> "ffmpeg", log |-> Log(r, <<"ffmpeg">>)])
       ELSE V10_Catch(r, "internal", <<"fail_mkdir">>)
  /\ UNCHANGED <<shared, tool, clock, tmpSeq, files, bucket>>

\* The outcomes of spawn("ffmpeg", args): the exit codes delivered to
\* ff.on("close"), and "error" when the child could not be started.
SpawnOutcomes == {"0", "1", "error"}

\* ff.on("close", code): code 0 resolves, another code rejects (outer catch).
\* Then uploadToR2 inside its own try: without a client it throws at once and
\* the handler goes on to the unlink; with one, fs.promises.readFile starts.
\* The child's 'error' event has no listener: the emitter throws it, nothing
\* catches it and the process exits with every request in progress unanswered.
V10_FfmpegSettle(r) ==
  /\ variant = "v10"
  /\ run[r].pc = "ffmpeg"
  /\ \E outcome \in SpawnOutcomes :
       CASE outcome = "0" ->
              /\ files' = FsWrite(files, run[r].outPath,
                                  Encoded(Downloaded(run[r].inputUrl, r), r))
              /\ IF s3
                 THEN Set(r, [pc |-> "read", log |-> Log(r, <<"exit_0", "ffmpeg_ok">>)])
                 ELSE Set(r, [pc |-> "unlink",
                              log |-> Log(r, <<"exit_0", "ffmpeg_ok", "fail_publish">>)])
         [] outcome = "1" ->
              /\ V10_Catch(r, "transcode", <<"fail_ffmpeg">>)
              /\ UNCHANGED files
         [] OTHER ->
              /\ run' = [q \in Requests |->
                           IF run[q].pc \in {"idle", "done"} THEN run[q]
                           ELSE [run[q] EXCEPT !.pc = "exited",
                                               !.log = Log(q, <<"uncaught">>)]]
              /\ UNCHANGED files
  /\ UNCHANGED <<shared, tool, clock, tmpSeq, bucket>>

\* uploadToR2: await readFile(localPath); then s3.send(put) starts.  A failure
\* is caught by the handler's inner try and only logged.
V10_ReadSettle(r) ==
  /\ variant = "v10"
  /\ run[r].pc = "read"
  /\ \E ok \in BOOLEAN :
       IF ok
       THEN /\ FsExists(files, run[r].outPath)
            /\ Set(r, [pc |-> "upload", buf |-> files[run[r].outPath],
                       log |-> Log(r, <<"put">>)])
       ELSE Set(r, [pc |-> "unlink", log |-> Log(r, <<"fail_read">>)])
  /\ UNCHANGED <<shared, tool, clock, tmpSeq, files, bucket>>

\* uploadToR2: await s3.send(put), then the URL is returned; a rejection is
\* caught by the inner try (publicUrl stays null).  Then `await unlink`.
V10_UploadSettle(r) ==
  /\ variant = "v10"
  /\ run[r].pc = "upload"
  /\ \E ok \in BOOLEAN :
       IF ok
       THEN /\ PutCanSucceed
            /\ bucket' = FsWrite(bucket, ProcessedKey(run[r].outputKey), run[r].buf)
            /\ Set(r, [pc |-> "unlink", putOk |-> TRUE,
                       publicUrl |-> V10_publicUrl(env, ProcessedKey(run[r].outputKey)),
                       log |-> Log(r, <<"put_ok">>)])
       ELSE /\ Set(r, [pc |-> "unlink", log |-> Log(r, <<"fail_put">>)])
            /\ UNCHANGED bucket
  /\ UNCHANGED <<shared, tool, clock, tmpSeq, files>>

\* await fs.promises.unlink(localOut) inside a try that only warns; then the
\* response {ok: true, outputKey, publicUrl}.
V10_UnlinkSettle(r) ==
  /\ variant = "v10"
  /\ run[r].pc = "unlink"
  /\ \E ok \in BOOLEAN :
       /\ files' = IF ok /\ FsExists(files, run[r].outPath)
                   THEN FsUnlink(files, run[r].outPath) ELSE files
       /\ Set(r, [pc |-> "done",
                  resp |-> Resp(200, TRUE, run[r].publicUrl,
                                ProcessedKey(run[r].outputKey), "none", <<>>),
                  log |-> Log(r, (IF ok THEN <<"release">>
                                  ELSE <<"release", "release_threw">>)
                                 \o <<"resp_ok">>)])
  /\ UNCHANGED <<shared, tool, clock, tmpSeq, bucket>>

V10(r) ==
  \/ V10_Start(r)
  \/ V10_MkdirSettle(r)
  \/ V10_FfmpegSettle(r)
  \/ V10_ReadSettle(r)
  \/ V10_UploadSettle(r)
  \/ V10_UnlinkSettle(r)

\* ------------------------------------------------------------------ system
Next ==
  \/ Tick
  \/ ListenStart
  \/ ListenSettle
  \/ \E r \in Requests : Cli(r)
  \/ \E r \in Requests : Sp(r)
  \/ \E r \in Requests : Fl(r)
  \/ \E r \in Requests : Ex(r)
  \/ \E r \in Requests : Cp(r)
  \/ \E r \in Requests : V10(r)

Spec == Init /\ [][Next]_vars

\* The exec servers alone, with the event loop running every callback whose
\* promise has settled.
LiveInit == Init /\ variant \in CliVariants

LiveNext ==
  \/ Tick
  \/ ListenStart
  \/ ListenSettle
  \/ \E r \in Requests : Cli(r)

LiveSpec ==
  /\ LiveInit
  /\ [][LiveNext]_vars
  /\ \A r \in Requests : WF_vars(Cli(r))

\* src/server.js alone, as loaded.
V41Init == Init /\ variant = "v41"

\* The /process handler of src/server.js.
V41(r) ==
  \/ V41_Start(r)
  \/ Cli_FetchSettle(r)
  \/ Cli_BodySettle(r)
  \/ Cli_WriteSettle(r)
  \/ Cli_FfmpegSettle(r)
  \/ Cli_ReadSettle(r)
  \/ Cli_UploadSettle(r)
  \/ Cli_Cleanup(r)

\* src/server.js with its GET /health endpoint next to /process.
HealthNext ==
  \/ Tick
  \/ ListenStart
  \/ ListenSettle
  \/ HealthStart
  \/ HealthSettle
  \/ \E r \in Requests : V41(r)

HealthSpec == V41Init /\ [][HealthNext]_vars

\* The caller of request r goes away before the response.  The handler
\* registers no listener on req or res ("close", "aborted") and hands no
\* caller-driven signal to fetch, exec or s3.send, so nothing of its state
\* changes; the log notes when it happened.
Disconnect(r) ==
  /\ variant = "v41"
  /\ run[r].pc \in {"fetch", "body", "write", "ffmpeg", "read", "upload", "upload_unanswered"}
  /\ ~Has(run[r].log, "cancel")
  /\ Set(r, [log |-> Log(r, <<"cancel">>)])
  /\ UNCHANGED <<shared, tool, clock, tmpSeq, files, bucket>>

\* src/server.js with callers that may disconnect.
CancelNext ==
  \/ Tick
  \/ ListenStart
  \/ ListenSettle
  \/ \E r \in Requests : V41(r)
  \/ \E r \in Requests : Disconnect(r)

CancelSpec == V41Init /\ [][CancelNext]_vars

\* ------------------------------------------------------------------ keys and URLs on their own
\* What each handler does with outputKey and R2_PUBLIC_BASE_URL when it
\* publishes: the Key of the PutObjectCommand, the key in the response and
\* the URL in the response, for a base and a key drawn from PublicBases and
\* KeyInputs.  The pipeline stands still.
pipeline == <<variant, env, s3, isFfmpegReady, ffmpegPath, listen, health, clock, tmpSeq,
              files, bucket, run>>

\* The server as loaded, with everything configured and no request yet.
PipelineIdle ==
  /\ variant = "v41"
  /\ env = [n \in EnvNames |-> TRUE]
  /\ s3 = TRUE
  /\ isFfmpegReady = FALSE
  /\ ffmpegPath = "ffmpeg"
  /\ listen = "init"
  /\ health = "idle"
  /\ clock = 0
  /\ tmpSeq = 0
  /\ files = <<>>
  /\ bucket = <<>>
  /\ run = [r \in Requests |-> IdleRun]

UrlInit ==
  /\ PipelineIdle
  /\ cmd = NoCmd
  /\ tls = NoTls
  /\ loc = NoLoc
  /\ dl = NoDl
  /\ nk = NoKey
  /\ pub \in {Upd(NoPub, [base |-> b, key |-> k]) : b \in PublicBases, k \in KeyInputs}

\* src/server.js: Key: outputKey, cdnUrl, outputKey in the response.
Publish_v41 ==
  /\ pub.by = "none"
  /\ pub' = Upd(pub, [by |-> "v41", putKey |-> pub.key, respKey |-> pub.key,
                      url |-> cdnUrlOf(pub.base, pub.key)])
  /\ UNCHANGED <<pipeline, cmd, tls, loc, dl, nk>>

\* part_008: Key: outputKey, publicUrl, outputKey in the response.
Publish_v30 ==
  /\ pub.by = "none"
  /\ pub' = Upd(pub, [by |-> "v30", putKey |-> pub.key, respKey |-> pub.key,
                      url |-> publicUrlOf(pub.base, pub.key)])
  /\ UNCHANGED <<pipeline, cmd, tls, loc, dl, nk>>

\* part_010: uploadToR2(localOut, `processed/${cleanKey}`) puts under that key
\* and returns `${R2_PUBLIC_BASE_URL}/${key}`; the response names the same key.
Publish_v10 ==
  /\ pub.by = "none"
  /\ pub' = Upd(pub, [by |-> "v10", putKey |-> ProcessedKey(pub.key),
                      respKey |-> ProcessedKey(pub.key),
                      url |-> V10_urlOf(pub.base, ProcessedKey(pub.key))])
  /\ UNCHANGED <<pipeline, cmd, tls, loc, dl, nk>>

UrlNext == Publish_v41 \/ Publish_v30 \/ Publish_v10

UrlSpec == UrlInit /\ [][UrlNext]_vars

\* ------------------------------------------------------------------ the transcoder invocation on its own
\* How the handlers start ffmpeg for a style or an argument list drawn from
\* Styles and FfmpegArgLists.
CmdInit ==
  /\ PipelineIdle
  /\ pub = NoPub
  /\ tls = NoTls
  /\ loc = NoLoc
  /\ dl = NoDl
  /\ nk = NoKey
  /\ cmd \in {Upd(NoCmd, [style |-> st, ffmpegArgs |-> fa]) :
                st \in Styles, fa \in FfmpegArgLists}

\* const { style = 'cinematic' } = req.body: the default applies to an absent
\* field only.
DestructuredStyle(style) == IF style = NoStyle THEN "cinematic" ELSE style

\* filters[style] || filters.default: an own property, else an inherited one,
\* else undefined, which is falsy.
ResolveFilter(style) ==
  IF style \in DOMAIN filters THEN filters[style]
  ELSE IF style \in ObjectPrototypeNames THEN Inherited(style)
  ELSE filters["default"]

\* The string handed to execAsync, word by word; a double quote is a token.
ffmpegCmd(path, inName, filter, outName) ==
  <<path, "-i", "\"">> \o inName \o <<"\"", "-vf", "\"", filter, "\"",
    "-c:v", "libx264", "-preset", "ultrafast", "-c:a", "copy", "\"">>
    \o outName \o <<"\"", "-y">>

\* src/server.js processVideoCLI: the filter is looked up and the command is
\* one string run by a shell.
Build_v41 ==
  /\ cmd.by = "none"
  /\ LET filter == ResolveFilter(DestructuredStyle(cmd.style))
     IN cmd' = Upd(cmd, [by |-> "v41", filter |-> filter, via |-> "shell",
                         args |-> ffmpegCmd(ffmpegPath, TmpName(1), filter, TmpName(2))])
  /\ UNCHANGED <<pipeline, pub, tls, loc, dl, nk>>

\* part_010 runFFmpeg(inputUrl, localOut, Array.isArray(ffmpegArgs) ?
\* ffmpegArgs : []): spawn("ffmpeg", ["-y", "-i", inputUrl, ...extraArgs, outPath]).
Build_v10 ==
  /\ cmd.by = "none"
  /\ LET extraArgs == IF cmd.ffmpegArgs.isArray THEN cmd.ffmpegArgs.items ELSE <<>>
     IN cmd' = Upd(cmd, [by |-> "v10", via |-> "argv",
                         args |-> <<"-y", "-i", "srcA">> \o extraArgs
                                    \o <<"/tmp/processed/a.mp4">>])
  /\ UNCHANGED <<pipeline, pub, tls, loc, dl, nk>>

CmdNext == Build_v41 \/ Build_v10

CmdSpec == CmdInit /\ [][CmdNext]_vars

\* ------------------------------------------------------------------ TLS settings on their own
\* src/server.js as loaded, for each value of NODE_TLS_REJECT_UNAUTHORIZED.
TlsInit ==
  /\ Loaded
  /\ variant = "v41"
  /\ pub = NoPub
  /\ cmd = NoCmd
  /\ loc = NoLoc
  /\ dl = NoDl
  /\ nk = NoKey
  /\ tls \in {Upd(NoTls, [envVal |-> v]) : v \in TlsEnvValues}

\* src/server.js: new S3Client({..., tls: {rejectUnauthorized:
\* NODE_TLS_REJECT_UNAUTHORIZED !== '0'}}), when the client is built.
Tls_S3Client ==
  /\ tls.by = "none"
  /\ s3
  /\ tls' = Upd(tls, [by |-> "S3Client", rejectUnauthorized |-> tls.envVal # "0"])
  /\ UNCHANGED <<pipeline, pub, cmd, loc, dl, nk>>

\* part_003 downloadToTmp: new https.Agent({rejectUnauthorized: false}) for
\* the source fetch.
Tls_downloadToTmp ==
  /\ tls.by = "none"
  /\ tls' = Upd(tls, [by |-> "downloadToTmp", rejectUnauthorized |-> FALSE])
  /\ UNCHANGED <<pipeline, pub, cmd, loc, dl, nk>>

TlsNext == Tls_S3Client \/ Tls_downloadToTmp

TlsSpec == TlsInit /\ [][TlsNext]_vars

\* ------------------------------------------------------------------ scratch paths on their own
\* Where the handlers that derive a path from outputKey put their files.
PathInit ==
  /\ PipelineIdle
  /\ pub = NoPub
  /\ cmd = NoCmd
  /\ tls = NoTls
  /\ dl = NoDl
  /\ nk = NoKey
  /\ loc \in {Upd(NoLoc, [outputKey |-> k]) : k \in PathKeyInputs}

\* part_005: after the `!outputKey` test, inputPath = "/tmp/input.mp4" and
\* outLocalPath = `/tmp/${outputKey}`, under /tmp.
Paths_copy ==
  /\ loc.by = "none"
  /\ loc.outputKey # <<>>
  /\ loc' = Upd(loc, [by |-> "copy", root |-> <<"/", "tmp">>, inPath |-> inputPath,
                      outPath |-> outLocalPath(loc.outputKey)])
  /\ UNCHANGED <<pipeline, pub, cmd, tls, dl, nk>>

\* part_010: localOut = path.join("/tmp/processed", cleanKey); ffmpeg reads
\* the URL, there is no input file.
Paths_v10 ==
  /\ loc.by = "none"
  /\ loc' = Upd(loc, [by |-> "v10", root |-> <<"/", "tmp", "/", "processed">>,
                      inPath |-> NoPath, outPath |-> localOut(loc.outputKey)])
  /\ UNCHANGED <<pipeline, pub, cmd, tls, dl, nk>>

PathNext == Paths_copy \/ Paths_v10

PathSpec == PathInit /\ [][PathNext]_vars

\* ------------------------------------------------------------------ download to file
\* One call of a download helper on a body of dl.size chunks.
DlInit ==
  /\ PipelineIdle
  /\ pub = NoPub
  /\ cmd = NoCmd
  /\ tls = NoTls
  /\ loc = NoLoc
  /\ nk = NoKey
  /\ dl \in {Upd(NoDl, [helper |-> h, size |-> n]) : h \in Helpers, n \in 0..MaxChunks}

\* downloadToTmp: createWriteStream(dest) and https.get(url) start.
\* downloadToFile: `await fetch(url)` starts.  part_006: the body of the
\* global fetch is a web ReadableStream, which has no pipe method, so
\* `sourceResp.body.pipe(fileStream)` throws in the executor and the promise
\* is rejected before a listener is registered.
Dl_Call ==
  /\ dl.pc = "none"
  /\ dl' = IF dl.helper = "streamSave"
           THEN Upd(dl, [pc |-> "rejected", why |-> "typeError"])
           ELSE Upd(dl, [pc |-> "request"])
  /\ UNCHANGED <<pipeline, pub, cmd, tls, loc, nk>>

\* The response arrives: status 200 (resp.ok) starts the pipe into the file;
\* another status rejects or throws; a request error rejects.
Dl_Response ==
  /\ dl.pc = "request"
  /\ \E res \in {"200", "non200", "error"} :
       dl' = CASE res = "200" -> Upd(dl, [pc |-> "piping"])
               [] res = "non200" -> Upd(dl, [pc |-> "rejected", why |-> "status"])
               [] OTHER -> Upd(dl, [pc |-> "rejected", why |-> "requestError"])
  /\ UNCHANGED <<pipeline, pub, cmd, tls, loc, nk>>

\* readable.pipe(writable): one more chunk of the body reaches the file.
Dl_Chunk ==
  /\ dl.pc = "piping"
  /\ dl.written < dl.size
  /\ dl' = Upd(dl, [written |-> dl.written + 1])
  /\ UNCHANGED <<pipeline, pub, cmd, tls, loc, nk>>

\* The body has ended and the file emits "finish": the promise resolves.
Dl_Finish ==
  /\ dl.pc = "piping"
  /\ dl.written = dl.size
  /\ dl' = Upd(dl, [pc |-> "resolved", why |-> "finish"])
  /\ UNCHANGED <<pipeline, pub, cmd, tls, loc, nk>>

\* The response stream fails before the body has ended.  pipe() does not end
\* the destination, so "finish" never comes; with no listener of the helper
\* the promise stays pending, or the process exits on the unhandled 'error'
\* when the stream has no listener of the library either.
Dl_BodyError ==
  /\ dl.pc = "piping"
  /\ dl.written < dl.size
  /\ IF "bodyError" \in Listeners(dl.helper)
     THEN dl' = Upd(dl, [pc |-> "rejected", why |-> "bodyError"])
     ELSE \E fate \in {"pending", "exited"} :
            dl' = Upd(dl, [pc |-> fate, why |-> "bodyError"])
  /\ UNCHANGED <<pipeline, pub, cmd, tls, loc, nk>>

\* The write stream fails (open, write or flush).  writable.on("error",
\* reject) settles the promise; a write stream without an 'error' listener
\* throws the error and the process exits.
Dl_WriteError ==
  /\ dl.pc = "piping"
  /\ dl' = IF "writeError" \in Listeners(dl.helper)
           THEN Upd(dl, [pc |-> "rejected", why |-> "writeError"])
           ELSE Upd(dl, [pc |-> "exited", why |-> "writeError"])
  /\ UNCHANGED <<pipeline, pub, cmd, tls, loc, nk>>

DlNext ==
  \/ Dl_Call
  \/ Dl_Response
  \/ Dl_Chunk
  \/ Dl_Finish
  \/ Dl_BodyError
  \/ Dl_WriteError

\* The event loop delivers every event of the transfer that has occurred.
DlSpec == DlInit /\ [][DlNext]_vars /\ WF_vars(DlNext)

\* ------------------------------------------------------------------ key normalisation
\* One outputKey on its way from a caller into part_010's handler.
KeyInit ==
  /\ PipelineIdle
  /\ pub = NoPub
  /\ cmd = NoCmd
  /\ tls = NoTls
  /\ loc = NoLoc
  /\ dl = NoDl
  /\ nk \in {Upd(NoKey, [input |-> k]) : k \in NormKeyInputs}

\* The caller sends the key as it holds it.
Key_SendRaw ==
  /\ nk.by = "none"
  /\ nk' = Upd(nk, [by |-> "raw", sent |-> nk.input])
  /\ UNCHANGED <<pipeline, pub, cmd, tls, loc, dl>>

\* The caller applies normalizeOutputKey before sending.
Key_SendNormalized ==
  /\ nk.by = "none"
  /\ nk' = Upd(nk, [by |-> "normalized", sent |-> normalizeOutputKey(nk.input)])
  /\ UNCHANGED <<pipeline, pub, cmd, tls, loc, dl>>

\* part_010: cleanKey = normalizeOutputKey(outputKey || "output.mp4"), stored
\* under `processed/${cleanKey}`.
Key_Handler ==
  /\ nk.by # "none"
  /\ ~nk.handled
  /\ nk' = Upd(nk, [handled |-> TRUE, cleanKey |-> cleanKey(nk.sent)])
  /\ UNCHANGED <<pipeline, pub, cmd, tls, loc, dl>>

KeyNext == Key_SendRaw \/ Key_SendNormalized \/ Key_Handler

KeySpec == KeyInit /\ [][KeyNext]_vars

\* ------------------------------------------------------------------ observations
Acquired(r) == Has(run[r].log, "acquire")
Finished(r) == run[r].pc = "done"
Responded(r) == run[r].resp.status # 0
InFlight(r) == Acquired(r) /\ ~Finished(r)
Invalid(r) == run[r].inputUrl = "" \/ run[r].outputKey = <<>>
Arrived(r) == run[r].pc # "idle"

FailEvents ==
  {"fail_acquire", "fail_fetch", "fail_stat", "fail_ffmpeg", "fail_read", "fail_put",
   "fail_publish", "fail_url", "fail_mkdir"}
StageStarts == {"fetch", "ffmpeg", "put"}

\* The error kind a failure event is reported as.
KindOf(ev) ==
  CASE ev = "fail_fetch" -> "fetch"
    [] ev = "fail_ffmpeg" -> "transcode"
    [] ev = "fail_read" -> "read"
    [] ev \in {"fail_put", "fail_publish"} -> "upload"
    [] OTHER -> "internal"

FirstFailure(log) ==
  LET at == {i \in 1..Len(log) : log[i] \in FailEvents}
  IN CHOOSE i \in at : \A j \in at : i <= j

Failed(log) == \E i \in 1..Len(log) : log[i] \in FailEvents

Paths(r) == {run[r].inPath, run[r].outPath} \ {NoPath}

\* ------------------------------------------------------------------ claims

\* C1: every run that acquired scratch files performs their release exactly
\* once: never more than once at any time, and once when the run has ended
\* (src/server.js and part_003 v2.0.0).
C1_ReleaseExactlyOnce ==
  variant \in {"v41", "v20"} =>
    \A r \in Requests :
      Acquired(r) =>
        /\ Count(run[r].log, "release") <= 1
        /\ Finished(r) => Count(run[r].log, "release") = 1

\* C2: once a run has completed, with a success or a failure response, its
\* input path and its output path are absent from the filesystem (no removal
\* having failed) (src/server.js, part_006 spawn, part_003 fluent-ffmpeg).
C2_WorkspaceAbsentAfterRun ==
  variant \in {"v41", "spawn", "fluent"} =>
    \A r \in Requests :
      (Finished(r) /\ Responded(r) /\ run[r].outPath # NoPath
         /\ ~Has(run[r].log, "release_threw"))
        => \A p \in Paths(r) : ~FsExists(files, p)

\* C3: a response carries a success flag or a public URL only if the storage
\* PUT of that run completed successfully before it (src/server.js, part_003
\* exec, part_010).
C3_SuccessImpliesUploaded ==
  variant \in {"v41", "exec", "v10"} =>
    \A r \in Requests :
      (run[r].resp.ok \/ run[r].resp.url # <<>>)
        => /\ run[r].putOk
           /\ Before(run[r].log, "put_ok", "resp_ok")

\* C4: the first stage failure is the one reported, and after a failure no
\* stage is started and no success response is sent (src/server.js, part_010).
C4_FirstFailureReported ==
  variant \in {"v41", "v10"} =>
    \A r \in Requests :
      Failed(run[r].log) =>
        LET log == run[r].log
            f == FirstFailure(log)
        IN /\ \A j \in (f + 1)..Len(log) : log[j] \notin StageStarts \cup {"resp_ok"}
           /\ Responded(r) => /\ ~run[r].resp.ok
                              /\ run[r].resp.kind = KindOf(log[f])

\* C5: transcoding starts only after the fetch has completed, the upload only
\* after the transcode has succeeded, and a run that ends in success has gone
\* through the fetch, the transcode and the upload in that order
\* (src/server.js, part_010).
C5_StagesSequential ==
  variant \in {"v41", "v10"} =>
    \A r \in Requests :
      /\ Before(run[r].log, "fetch_ok", "ffmpeg")
      /\ Before(run[r].log, "ffmpeg_ok", "put")
      /\ run[r].resp.ok =>
           /\ Has(run[r].log, "put_ok")
           /\ Before(run[r].log, "ffmpeg_ok", "put_ok")
           /\ Before(run[r].log, "fetch_ok", "ffmpeg_ok")

\* C6: in every run the fetch, the transcoder invocation and the storage PUT
\* are each attempted at most once, whatever their outcome.
C6_AtMostOnce ==
  \A r \in Requests :
    /\ Count(run[r].log, "fetch") <= 1
    /\ Count(run[r].log, "ffmpeg") <= 1
    /\ Count(run[r].log, "put") <= 1

\* A run of server.js whose upload failed: each stage was attempted once.
C6_Witness ==
  \E r \in Requests :
    /\ variant = "v41"
    /\ Finished(r)
    /\ Has(run[r].log, "fail_put")
    /\ Count(run[r].log, "fetch") = 1
    /\ Count(run[r].log, "ffmpeg") = 1
    /\ Count(run[r].log, "put") = 1

\* C7: a request whose inputUrl or outputKey is missing or empty is rejected
\* with no scratch file created and no fetch, transcode or upload attempted
\* (src/server.js and part_008 v3.0.0).
C7_ValidationBeforeAcquire ==
  variant \in {"v41", "v30"} =>
    \A r \in Requests :
      (Arrived(r) /\ Invalid(r)) =>
        /\ Finished(r)
        /\ Responded(r) /\ ~run[r].resp.ok
        /\ run[r].log = <<"resp_fail">>
        /\ Paths(r) = {}
        /\ \A p \in DOMAIN files : files[p].by # r

\* An invalid request was rejected by server.js while the other request holds
\* scratch files.
C7_Witness ==
  \E r \in Requests, q \in Requests :
    /\ variant = "v41"
    /\ Finished(r) /\ Invalid(r) /\ run[r].resp.status = 400
    /\ InFlight(q) /\ \E p \in DOMAIN files : files[p].by = q

\* C8: every request with an empty outputKey or a missing inputUrl is answered
\* with the 400 validation error, whatever the tool flag and the storage
\* configuration, and is never accepted (part_010, part_007 v3.2, src/server.js).
C8_InvalidAlways400 ==
  variant \in {"v10", "v32", "v41"} =>
    \A r \in Requests :
      (Arrived(r) /\ Invalid(r)) =>
        /\ Finished(r)
        /\ run[r].resp.status = 400
        /\ run[r].resp.kind = "validation"

\* C9: two runs in flight at the same time share no scratch path (part_003
\* v2.0.0 and exec).
C9_PathsUnique ==
  variant \in {"v20", "exec"} =>
    \A r \in Requests, q \in Requests :
      (r # q /\ InFlight(r) /\ InFlight(q)) => Paths(r) \cap Paths(q) = {}

\* C10: with distinct output keys, what a request uploads or leaves as its
\* artifact comes from its own source, and the files of a run in flight were
\* written by no other request (src/server.js, part_005 copy, part_006 spawn).
C10_Independent ==
  variant \in {"v41", "copy", "spawn"} =>
    \A r \in Requests :
      (\A q \in Requests \ {r} : run[q].outputKey # run[r].outputKey) =>
        /\ run[r].buf # NoContent => run[r].buf.src = run[r].inputUrl
        /\ InFlight(r) =>
             \A p \in Paths(r) : FsExists(files, p) => files[p].by = r

\* Error kinds a request can be refused with before the pipeline starts.
PreflightKinds == {"unauthorized", "validation", "toolNotAvailable", "notConfigured"}

\* C11: whenever the endpoint, the bucket or a credential is missing, a request
\* is refused pre-flight: no scratch file, no download, no transcoder run and
\* no storage call (src/server.js, part_003 v2.0.0).
C11_StorageChecked ==
  variant \in {"v41", "v20"} =>
    \A r \in Requests :
      (Arrived(r) /\ ~R2Configured(env)) =>
        /\ Finished(r)
        /\ ~run[r].resp.ok
        /\ run[r].resp.kind \in PreflightKinds
        /\ run[r].log = <<"resp_fail">>
        /\ Paths(r) = {}

C13_FetchFailureTerminal ==
  variant = "v41" =>
    \A r \in Requests :
      Has(run[r].log, "fail_fetch") =>
        /\ Count(run[r].log, "fetch") = 1
        /\ ~Has(run[r].log, "ffmpeg") /\ ~Has(run[r].log, "put")
        /\ ~FsExists(bucket, run[r].outputKey) \/ bucket[run[r].outputKey].by # r
        /\ Responded(r) /\ ~run[r].resp.ok /\ run[r].resp.kind = "fetch"
        /\ run[r].pc \in {"cleanup", "done"}

\* The source answered the fetch with a failure and the run has ended.
C13_Witness ==
  \E r \in Requests :
    /\ variant = "v41"
    /\ Finished(r)
    /\ run[r].log = <<"acquire", "fetch", "fail_fetch", "resp_fail", "release">>
    /\ run[r].resp.status = 500

\* C14: when the transcoder exits non-zero the run answers with a failure,
\* never starts the PUT, and still releases its scratch files (src/server.js,
\* part_006 spawn).
C14_TranscodeFailureReleases ==
  variant \in {"v41", "spawn"} =>
    \A r \in Requests :
      Has(run[r].log, "fail_ffmpeg") =>
        /\ ~Has(run[r].log, "put")
        /\ Responded(r) /\ ~run[r].resp.ok
        /\ Finished(r) =>
             /\ Count(run[r].log, "release") = 1
             /\ ~Has(run[r].log, "release_threw") =>
                  \A p \in Paths(r) : ~FsExists(files, p)

\* C15: the transcode counts as successful exactly when ffmpeg exited with
\* status 0, whatever it wrote to standard error: exit 0 lets the run go on,
\* any other exit fails it (part_008 v3.0.0, part_003 v2.0.0, src/server.js).
C15_SuccessIffExitZero ==
  variant \in {"v30", "v20", "v41"} =>
    \A r \in Requests :
      /\ Has(run[r].log, "exit_0") =>
           /\ Has(run[r].log, "ffmpeg_ok")
           /\ ~Has(run[r].log, "fail_ffmpeg")
      /\ Has(run[r].log, "ffmpeg_ok") => Has(run[r].log, "exit_0")

\* C16: the fetch, the wait for ffmpeg and the upload are each bounded by a
\* timeout, so every run of src/server.js eventually ends with a response and,
\* if it acquired scratch files, their release.
C16_EveryRunEnds ==
  \A r \in Requests :
    (variant = "v41" /\ Arrived(r))
      ~> (Finished(r) /\ Responded(r)
            /\ (Acquired(r) => Has(run[r].log, "release")))

\* C17: the key given to the storage PUT and the key returned in the success
\* response are the request's outputKey itself (src/server.js, part_010).
C17_KeyIsCallerSupplied ==
  variant \in {"v41", "v10"} =>
    \A r \in Requests :
      /\ run[r].putOk => FsExists(bucket, run[r].outputKey)
      /\ run[r].resp.ok => run[r].resp.key = run[r].outputKey

\* C18: two requests to src/server.js with the same source and the same
\* outputKey that both end in success carry the same public URL, and the
\* bucket holds one object under that key, the transcoded source.
C18_Idempotent ==
  variant = "v41" =>
    \A r \in Requests, q \in Requests :
      (r # q /\ run[r].inputUrl = run[q].inputUrl
             /\ run[r].outputKey = run[q].outputKey
             /\ run[r].resp.ok /\ run[q].resp.ok) =>
        /\ run[r].resp.url = run[q].resp.url
        /\ run[r].resp.key = run[q].resp.key
        /\ FsExists(bucket, run[r].outputKey)
        /\ bucket[run[r].outputKey].src = run[r].inputUrl
        /\ bucket[run[r].outputKey].enc
        /\ bucket[run[r].outputKey].by \in {r, q}

\* The same request was submitted twice, at different times; both succeeded
\* and the second upload replaced the object of the first.
C18_Witness ==
  /\ variant = "v41"
  /\ run[1].inputUrl = "srcA" /\ run[2].inputUrl = "srcA"
  /\ run[1].outputKey = <<"a.mp4">> /\ run[2].outputKey = <<"a.mp4">>
  /\ run[1].resp.ok /\ run[2].resp.ok
  /\ run[1].requestId # run[2].requestId
  /\ Before(run[2].log, "put_ok", "resp_ok")
  /\ bucket[<<"a.mp4">>].by = 2

\* The base without a trailing slash, one slash, the key without a leading
\* slash.
StripLeadingSlash(s) == IF Len(s) > 0 /\ IsSlash(s[1]) THEN Tail(s) ELSE s
JoinWithOneSlash(base, key) ==
  StripTrailingSlash(base) \o <<"/">> \o StripLeadingSlash(key)

\* C19: the public URL is the base and the storage key joined by exactly one
\* slash, whether or not the base ends and the key starts with one, with
\* nothing else changed (src/server.js cdnUrl, part_008 publicUrl, part_010
\* uploadToR2).
C19_OneSeparatingSlash ==
  pub.by # "none" => pub.url = JoinWithOneSlash(pub.base, pub.putKey)

\* C20: for an outputKey with a leading slash, the key of the PUT, the key in
\* the response and the key in the returned URL are one normalized key: the URL
\* is the base, one slash and the key the object was written under
\* (src/server.js, part_010 normalizeOutputKey).
C20_LeadingSlashConsistent ==
  (pub.by \in {"v41", "v10"} /\ IsSlash(pub.key[1])) =>
    /\ pub.putKey = pub.respKey
    /\ ~IsSlash(pub.putKey[1])
    /\ pub.url = StripTrailingSlash(pub.base) \o <<"/">> \o pub.putKey

\* C21: the number of runs in flight at the same time (between acquisition and
\* release) stays below a fixed admission limit however many requests arrive:
\* with more requests than the limit, not all of them are in flight together
\* (src/server.js).
C21_AdmissionLimit ==
  variant = "v41" =>
    Cardinality({r \in Requests : InFlight(r)}) < NumRequests

\* C22: ffmpeg is started with an explicit argument list, never through a
\* shell string, and the list holds besides its literals at most one element
\* for each of the source, the output and the transform, so that a request
\* cannot add arguments (src/server.js processVideoCLI, part_010 runFFmpeg).
C22_ExplicitArgumentList ==
  cmd.by # "none" =>
    /\ cmd.via = "argv"
    /\ Len(cmd.args) <= Len(<<"-y", "-i">>) + 3

\* The five filter strings of the style table.
EnumeratedFilters == {filters[k] : k \in DOMAIN filters}

\* C23: a style that is none of cinematic, vibrant, vintage, bw, default
\* resolves to 'scale=1920:1080', and the filter is always one of the five
\* enumerated strings (src/server.js processVideoCLI).
C23_UnknownStyleDefaults ==
  cmd.by = "v41" =>
    /\ cmd.filter \in EnumeratedFilters
    /\ DestructuredStyle(cmd.style) \notin DOMAIN filters
         => cmd.filter = "scale=1920:1080"

\* C24: every failure response of /process, whether from the pre-flight checks
\* or from the pipeline's catch, carries a reason and the requestId of its run
\* (src/server.js).
C24_FailureCarriesReasonAndId ==
  variant = "v41" =>
    \A r \in Requests :
      (Responded(r) /\ ~run[r].resp.ok) =>
        /\ run[r].resp.kind # "none"
        /\ run[r].resp.requestId # <<>>
        /\ run[r].resp.requestId = run[r].requestId

\* One request was refused by the pre-flight checks and the other failed in
\* the transcoder; both responses name their run.
C24_Witness ==
  \E r \in Requests, q \in Requests :
    /\ variant = "v41"
    /\ run[r].resp.status = 400 /\ run[r].resp.requestId # <<>>
    /\ run[q].resp.status = 500 /\ run[q].resp.kind = "transcode"
    /\ run[q].resp.requestId # <<>>

\* C25: a scratch-file removal that fails is not escalated: the response of a
\* finished run is the one its stages dictate, success with a URL when no
\* stage failed and the first stage error otherwise, whether or not the
\* removal threw (src/server.js, part_003 v2.0.0).
C25_CleanupNeverEscalated ==
  variant \in {"v41", "v20"} =>
    \A r \in Requests :
      (Finished(r) /\ Acquired(r)) =>
        IF Failed(run[r].log)
        THEN /\ ~run[r].resp.ok
             /\ run[r].resp.kind = KindOf(run[r].log[FirstFailure(run[r].log)])
        ELSE /\ run[r].resp.ok
             /\ run[r].resp.status = 200
             /\ run[r].resp.url # <<>>

\* A run of server.js answered with success although a removal threw and left
\* a scratch file behind.
C25_Witness ==
  \E r \in Requests :
    /\ variant = "v41"
    /\ Finished(r)
    /\ Has(run[r].log, "release_threw")
    /\ \E p \in Paths(r) : FsExists(files, p)
    /\ run[r].resp.ok

\* C29: release removes both paths: once a run's release has happened, its
\* input file and its output file are not both still there, so one removal
\* that fails does not leave the other file behind (src/server.js, part_003
\* v2.0.0).
C29_ReleaseRemovesBoth ==
  variant \in {"v41", "v20"} =>
    \A r \in Requests :
      (Finished(r) /\ Has(run[r].log, "release")
         /\ run[r].inPath # NoPath /\ run[r].outPath # NoPath) =>
        ~(/\ FsExists(files, run[r].inPath)
          /\ files[run[r].inPath].by = r
          /\ FsExists(files, run[r].outPath)
          /\ files[run[r].outPath].by = r)

\* C26: GET /health is read-only: a step of the health handler leaves the
\* tool-availability flag, the tool path and the storage client as they were
\* (src/server.js).
C26_HealthReadOnly ==
  [][(variant = "v41" /\ health' # health)
       => UNCHANGED <<isFfmpegReady, ffmpegPath, s3>>]_vars

\* C27: once the caller has disconnected during a run, the stage in flight is
\* aborted and no further stage starts: after the cancellation the run's log
\* shows no stage start, no stage completion and no success response, only
\* the failure of the aborted stage and the release (src/server.js).
C27_CancelAbortsRun ==
  variant = "v41" =>
    \A r \in Requests :
      \A i \in 1..Len(run[r].log) :
        run[r].log[i] = "cancel" =>
          \A j \in (i + 1)..Len(run[r].log) :
            run[r].log[j] \notin
              StageStarts \cup {"fetch_ok", "exit_0", "ffmpeg_ok", "put_ok", "resp_ok"}

\* C28: certificate validation stays enabled in every configuration: neither
\* the agent of the source fetch nor the storage client is built with
\* certificate verification switched off, whatever the environment holds
\* (part_003 downloadToTmp, src/server.js S3Client).
C28_CertificatesVerified ==
  tls.by # "none" => tls.rejectUnauthorized

\* A path names a location below the root: the root's segments, then more.
Inside(root, p) ==
  LET rs == ResolveSegments(root, <<>>)
      ps == ResolveSegments(p, <<>>)
  IN Len(ps) > Len(rs) /\ SubSeq(ps, 1, Len(rs)) = rs

\* C30: for every accepted outputKey the output path lies inside the scratch
\* root, and so does the input path where there is one, and the two are
\* distinct locations (part_005 inputPath and outLocalPath, part_010 cleanKey
\* and localOut).
C30_PathsInsideAndDistinct ==
  loc.by # "none" =>
    /\ Inside(loc.root, loc.outPath)
    /\ loc.inPath # NoPath =>
         /\ Inside(loc.root, loc.inPath)
         /\ PathNormalize(loc.inPath) # PathNormalize(loc.outPath)

\* C31: once the storage PUT of a run has completed successfully, nothing the
\* handler does afterwards (cleanup, building the public URL) turns the
\* response into a failure, for every configuration its pre-flight check lets
\* through (part_003 v2.0.0, part_008 v3.0.0).
C31_PutSuccessSurfaced ==
  variant \in {"v20", "v30"} =>
    \A r \in Requests :
      (Responded(r) /\ Has(run[r].log, "put_ok")) =>
        /\ run[r].resp.ok
        /\ run[r].resp.status = 200

\* C32: two distinct /process requests never receive the same requestId, also
\* when both are handled within the same clock millisecond (part_007 v3.2,
\* src/server.js).
C32_RequestIdUnique ==
  variant \in {"v32", "v41"} =>
    \A r \in Requests, q \in Requests :
      (r # q /\ Arrived(r) /\ Arrived(q)) => run[r].requestId # run[q].requestId

\* C33: the tool check is made once, at startup, and its cached result is not
\* modified afterwards: once the startup check has completed, no step writes
\* the flag or the cached tool path (src/server.js).
C33_ToolCacheWrittenOnce ==
  [][(variant = "v41" /\ listen = "done")
       => UNCHANGED <<isFfmpegReady, ffmpegPath>>]_vars

\* C34: the tool flag is monotonic: under every interleaving of the startup
\* check and /health checks, once isFfmpegReady is true it is never set back
\* to false (src/server.js).
C34_ToolFlagMonotonic ==
  [][(variant = "v41" /\ isFfmpegReady) => isFfmpegReady']_vars

\* C35: a valid request is refused as tool-not-available only when an
\* availability check has completed (and found no tool): a request arriving
\* while the startup check is still to finish is not refused for the tool
\* (src/server.js).
C35_RefusedOnlyAfterCheck ==
  [][variant = "v41" =>
       \A r \in Requests :
         (run[r].pc = "idle" /\ run'[r].pc = "done"
            /\ run'[r].resp.kind = "toolNotAvailable") => listen = "done"]_vars

\* Responses sent so far for request r.
Responses(r) == Count(run[r].log, "resp_ok") + Count(run[r].log, "resp_fail")

\* C36: on every path through the handler (a pre-flight rejection, success,
\* the failure of a stage) the request is answered exactly once: never twice
\* at any time, and once, not zero times, when its handling has ended
\* (src/server.js, part_010).
C36_ExactlyOneResponse ==
  variant \in {"v41", "v10"} =>
    \A r \in Requests :
      /\ Responses(r) <= 1
      /\ (Finished(r) \/ run[r].pc = "exited") => Responses(r) = 1
      /\ Responded(r) <=> Responses(r) = 1

\* C37: the download-to-file promise always settles: it resolves only when
\* the whole body has been written, and every outcome of the request, of the
\* transfer and of the write leads to a resolved or rejected promise
\* (part_003 downloadToTmp and streamToFile, part_006 stream save).
C37_DownloadSettles ==
  /\ [](dl.pc = "resolved" => dl.written = dl.size)
  /\ (dl.pc \in {"request", "piping"}) ~> (dl.pc \in {"resolved", "rejected"})

\* C38: normalizeOutputKey is idempotent: a key the caller has normalised is
\* left as it is by a second normalisation, and the key stored by the handler,
\* "processed/" followed by the clean key, is the same whether the caller
\* sent the key raw or normalised (part_010).
C38_NormalizeIdempotent ==
  /\ nk.by = "normalized" => normalizeOutputKey(nk.sent) = nk.sent
  /\ nk.handled => <<"processed", "/">> \o nk.cleanKey = ProcessedKey(nk.input)

====
